---- MODULE Spec2Model ----
(***************************************************************************)
(* A model of the visual-novel engine's script interpreter (src/main.py):  *)
(* the per-line dispatcher Main.interpret_line, the frame loop              *)
(* Main.run_scene, and the save/load codec Main.run_save / Main.load_save.  *)
(*                                                                         *)
(* The Main object is the record `main`, whose fields carry the names of   *)
(* the members of class Main.  A script line is a record whose `op` is the *)
(* prefix class that the cascade of startswith() tests of interpret_line   *)
(* selects, and whose other fields are the parameters the branch parses.   *)
(* Text that reaches the save file (dialogue lines, speaker names) is a    *)
(* sequence of one-character strings, so that the codec's startswith,      *)
(* split, strip and int conversions are computed as the code computes them.*)
(***************************************************************************)
EXTENDS Integers, Sequences, FiniteSets, TLC

VARIABLES main,    \* the Main instance (all members used by the interpreter)
          scenes,  \* data/scenes/<name>.nes: scene name -> sequence of lines
          disk,    \* data/data/000.jsav: [exists, lines]
          pc,      \* position of the process inside the frame of run_scene
          obs      \* observations of the last dispatch (history only)

vars == <<main, scenes, disk, pc, obs>>

(***************************************************************************)
(* Bounds of the model.                                                    *)
(***************************************************************************)
MaxWait == 3        \* largest N of a .wait(N) of the scripts
MaxLen == 3         \* longest script of the generated script family

(***************************************************************************)
(* class STATE                                                             *)
(***************************************************************************)
STATE_READ == 1
STATE_CHOOSE == 2
STATE_OPT_BRANCH == 3
STATE_VAR_BRANCH == 4
STATE_SAVE == 7

(***************************************************************************)
(* Python helpers on sequences.                                            *)
(***************************************************************************)
Min(a, b) == IF a < b THEN a ELSE b
Max(a, b) == IF a > b THEN a ELSE b

\* s.startswith(p)
StartsWith(s, p) == Len(s) >= Len(p) /\ SubSeq(s, 1, Len(p)) = p

\* list[1:]
Tail1(s) == IF s = <<>> THEN <<>> ELSE Tail(s)

\* list without its i-th element (1-based)
RemoveAt(s, i) == SubSeq(s, 1, i - 1) \o SubSeq(s, i + 1, Len(s))


(***************************************************************************)
(* Character strings.  Str_x is the Python string literal it is named for. *)
(***************************************************************************)
Str_empty == <<>>
Str_aa == <<"$", "a", "a">>
Str_ab == <<"$", "a", "b">>
Str_zz == <<"$", "z", "z">>
Str_a1 == <<"$", "a", "1">>

\* init_defaults: the names "$aa" .. "$zz", in the order they are generated.
\* The model keeps the first two and the last of the 676 names.
variable_strings == <<Str_aa, Str_ab, Str_zz>>

Range(f) == {f[i] : i \in DOMAIN f}

(***************************************************************************)
(* Python string operations, on sequences of one-character strings.        *)
(***************************************************************************)
IsSpace(c) == c \in {" ", "\n", "\t"}

RECURSIVE LStrip(_)
LStrip(s) == IF s # <<>> /\ IsSpace(Head(s)) THEN LStrip(Tail(s)) ELSE s

RECURSIVE RStrip(_)
RStrip(s) ==
    IF s # <<>> /\ IsSpace(s[Len(s)]) THEN RStrip(SubSeq(s, 1, Len(s) - 1))
    ELSE s

Strip(s) == RStrip(LStrip(s))

\* s.split(c) for a separator of one character
RECURSIVE Split(_, _)
Split(s, c) ==
    LET at == {i \in 1..Len(s) : s[i] = c}
    IN  IF at = {} THEN <<s>>
        ELSE LET i == CHOOSE j \in at : \A k \in at : j <= k
             IN  <<SubSeq(s, 1, i - 1)>> \o Split(SubSeq(s, i + 1, Len(s)), c)

RECURSIVE Concat(_)
Concat(ss) == IF ss = <<>> THEN <<>> ELSE Head(ss) \o Concat(Tail(ss))

DigitChars == <<"0", "1", "2", "3", "4", "5", "6", "7", "8", "9">>

DigitValue(c) == (CHOOSE i \in 1..10 : DigitChars[i] = c) - 1

AllDigits(s) == s # <<>> /\ \A i \in 1..Len(s) : s[i] \in Range(DigitChars)

RECURSIVE NatOf(_)
NatOf(s) ==
    IF s = <<>> THEN 0
    ELSE 10 * NatOf(SubSeq(s, 1, Len(s) - 1)) + DigitValue(s[Len(s)])

\* int(s) succeeds
IsInt(s) ==
    LET x == Strip(s)
    IN  IF x # <<>> /\ Head(x) \in {"-", "+"} THEN AllDigits(Tail(x))
        ELSE AllDigits(x)

\* int(s)
ParseInt(s) ==
    LET x == Strip(s)
    IN  IF Head(x) = "-" THEN 0 - NatOf(Tail(x))
        ELSE IF Head(x) = "+" THEN NatOf(Tail(x))
        ELSE NatOf(x)

RECURSIVE FormatNat(_)
FormatNat(n) ==
    IF n < 10 THEN <<DigitChars[n + 1]>>
    ELSE FormatNat(n \div 10) \o <<DigitChars[(n % 10) + 1]>>

\* "%d" % n
FormatInt(n) == IF n < 0 THEN <<"-">> \o FormatNat(0 - n) ELSE FormatNat(n)

\* "%03d" % n
Format03(n) ==
    LET d == FormatNat(IF n < 0 THEN 0 - n ELSE n)
        sign == IF n < 0 THEN <<"-">> ELSE <<>>
        pad == [i \in 1..Max(0, 3 - Len(sign) - Len(d)) |-> "0"]
    IN  sign \o pad \o d


(***************************************************************************)
(* Main.init_defaults and Main.init_members                                *)
(***************************************************************************)
scroll_speed_default == 12
auto_pause_default == 60
NumBanks == 8
ScreenWidth == 1280
ScreenHeight == 720

init_defaults ==
    [is_skip |-> FALSE, is_auto |-> FALSE,
     scroll_speed |-> scroll_speed_default, auto_pause |-> auto_pause_default]

Members ==
    [char_im |-> [i \in 0..(NumBanks - 1) |-> 0],
     cur_chars |-> <<>>,
     index |-> 0,
     cur_dialogue |-> <<>>,
     cur_text_index |-> 0,
     cur_name_text |-> [set |-> FALSE, string |-> Str_empty],
     new_anchor_string |-> "center",
     ingame_date |-> <<"n", "u", "l", "l">>,
     prev_dialogue |-> <<>>,
     prev_text_index |-> -1,
     max_prev_index |-> -1,
     prev_name_text |-> <<>>,
     is_process_text |-> FALSE,
     cur_scene |-> FALSE,
     old_scene |-> FALSE,
     cur_scene_file |-> <<<<"n", "u", "l", "l">>, <<"n", "u", "l", "l">>>>,
     cur_options |-> <<>>,
     cur_choice |-> -1,
     state |-> STATE_READ,
     advance |-> FALSE,
     finished_scene |-> FALSE,
     hide_alpha |-> 255,
     target_hide_alpha |-> 255,
     has_set_hide |-> FALSE,
     fade_alpha |-> 0,
     fade_rate |-> 5,
     zoom_scale |-> 10,
     target_scale |-> 10,
     zoom_rate |-> 1,
     has_loaded_scene |-> FALSE,
     has_unloaded_scene |-> FALSE,
     wait_count |-> 0,
     has_set_wait |-> FALSE,
     is_shake |-> FALSE,
     auto_count |-> 0,
     has_set_auto |-> FALSE,
     variables |-> [v \in Range(variable_strings) |-> 0],
     shake_range |-> <<0, 0>>,
     is_fade_in |-> FALSE,
     is_fade_out |-> FALSE,
     is_zoom_in |-> FALSE,
     is_zoom_out |-> FALSE,
     is_comment |-> FALSE,
     is_process_choice |-> FALSE,
     music |-> Str_empty,
     sound |-> Str_empty,
     error |-> 0]

\* (member music stands for pygame.mixer.music: the name of the file it
\* plays, empty when it is stopped; member sound is the name of the file of
\* the Sound object, empty for None)
\* init_members overwrites the members above and leaves every other one
\* (is_skip, is_auto, lines, cur_file, running, ...) as it is.
init_members(m) ==
    [f \in (DOMAIN m) \cup (DOMAIN Members) |->
        IF f \in DOMAIN Members THEN Members[f] ELSE m[f]]

(***************************************************************************)
(* The result of one call of interpret_line: the Main object after the     *)
(* call, the returned boolean, and the exception that left the call, if    *)
(* any: 0 for none, the number given to raise_exception, or PyError for an *)
(* exception of the Python runtime that no handler of the call catches.    *)
(***************************************************************************)
PyError == -1

Return(m, b) == [m |-> m, ret |-> b, err |-> 0]

raise_exception(m, num) == [m |-> m, ret |-> FALSE, err |-> num]

Uncaught(m) == [m |-> m, ret |-> FALSE, err |-> PyError]

(***************************************************************************)
(* Script lines.  `op` is the branch of interpret_line's cascade that the  *)
(* line's prefix selects; the other fields are what that branch parses.    *)
(***************************************************************************)
Blank == [op |-> "blank", txt |-> Str_empty]
Wait(n) == [op |-> "wait", form |-> "int", n |-> n]
WaitNonInt == [op |-> "wait", form |-> "nonint", n |-> 0]
\* .text(char=c, sub=e, pos=p, name=nm)
TextChar(c, e, p, nm) ==
    [op |-> "text", paren |-> TRUE, has_char |-> TRUE, char |-> c, sub |-> e,
     pos |-> p, name |-> nm, skip |-> FALSE]
\* .text(char=c, sub=e, pos=p, name=nm, skip=1)
TextCharSkip(c, e, p, nm) ==
    [op |-> "text", paren |-> TRUE, has_char |-> TRUE, char |-> c, sub |-> e,
     pos |-> p, name |-> nm, skip |-> TRUE]
\* .text(name=nm)
TextName(nm) ==
    [op |-> "text", paren |-> TRUE, has_char |-> FALSE, char |-> 0, sub |-> 0,
     pos |-> 0, name |-> nm, skip |-> FALSE]
\* .text(skip=1)
TextSkip ==
    [op |-> "text", paren |-> TRUE, has_char |-> FALSE, char |-> 0, sub |-> 0,
     pos |-> 0, name |-> Str_empty, skip |-> TRUE]
\* .text
TextEnd == [op |-> "text", paren |-> FALSE]
\* a line of dialogue
Raw(s) == [op |-> "raw", txt |-> s]
ChoiceLine == [op |-> "choice"]
\* "<id>: <prompt>"
Option(id, s) == [op |-> "opt", id |-> id, txt |-> s]
\* ".branch <label>:" and ".branch:"
BranchTo(label) == [op |-> "branch", labelled |-> TRUE, label |-> label]
BranchEnd == [op |-> "branch", labelled |-> FALSE, label |-> -1]
\* .music(name); .music() has the empty name
Music(name) == [op |-> "music", paren |-> TRUE, name |-> name]
\* .music
MusicBare == [op |-> "music", paren |-> FALSE, name |-> Str_empty]
\* .shake(x, y); nargs is the number of arguments between the parentheses
Shake(x, y) == [op |-> "shake", paren |-> TRUE, nargs |-> 2, x |-> x, y |-> y]
\* .shake
ShakeOff == [op |-> "shake", paren |-> FALSE, nargs |-> 0, x |-> 0, y |-> 0]
\* .sound(name); .sound() has the empty name.  txt is the text of the line.
Sound(name) ==
    [op |-> "sound", name |-> name,
     txt |-> <<".", "s", "o", "u", "n", "d", "(">> \o name \o <<")">>]
\* a line that matches no form of the language
Other == [op |-> "other", txt |-> <<"?">>]

(***************************************************************************)
(* Python list indexing: l[i] for -len <= i < len, IndexError otherwise.   *)
(* Sequences are 1-based, Python lists 0-based.                            *)
(***************************************************************************)
PyValid(len, i) == (0 - len) <= i /\ i < len
PyPos(len, i) == IF i < 0 THEN len + i + 1 ELSE i + 1

(***************************************************************************)
(* Text: the members of a Text object that the interpreter reads.          *)
(* The rendered width is CharWidth pixels for each character.              *)
(***************************************************************************)
CharWidth == 2

Text(s, scrollable, scroll_speed) ==
    [string |-> s, width |-> Len(s) * CharWidth, cur_width |-> 0,
     scrollable |-> scrollable, scroll_speed |-> scroll_speed]

\* Character(image, em, pos, name, index, num)
Character(em, pos, name, index, num) ==
    [em |-> em, pos |-> pos, name |-> name, index |-> index, alpha |-> 0,
     num |-> num]

MaxChars == 8

(***************************************************************************)
(* interpret_line: .wait                                                   *)
(***************************************************************************)
\* (variant: true one frame later, once the countdown is below 0)
interpret_wait_late(m, ln) ==
    IF ~m.has_set_wait /\ ln.form # "int"
    THEN raise_exception(m, 104)
    ELSE
      LET m1 == IF ~m.has_set_wait
                THEN [m EXCEPT !.wait_count = ln.n, !.has_set_wait = TRUE]
                ELSE m
          m2 == [m1 EXCEPT !.wait_count = m1.wait_count - 1]
      IN  IF m2.wait_count < 0
          THEN Return([m2 EXCEPT !.wait_count = 0, !.has_set_wait = FALSE], TRUE)
          ELSE Return(m2, FALSE)

interpret_wait(m, ln) ==
    IF ~m.has_set_wait /\ ln.form # "int"
    THEN raise_exception(m, 104)
    ELSE
      LET m1 == IF ~m.has_set_wait
                THEN [m EXCEPT !.wait_count = ln.n, !.has_set_wait = TRUE]
                ELSE m
          m2 == [m1 EXCEPT !.wait_count = m1.wait_count - 1]
      IN  IF m2.wait_count <= 0
          THEN Return([m2 EXCEPT !.wait_count = 0, !.has_set_wait = FALSE], TRUE)
          ELSE Return(m2, FALSE)

(***************************************************************************)
(* interpret_line: .text                                                   *)
(***************************************************************************)
\* (variant: at the cap the new character is the one dropped)
push_char_keep_oldest(cur_chars, new_char) ==
    LET appended == Append(cur_chars, new_char)
    IN  IF Len(appended) > MaxChars THEN cur_chars ELSE appended

\* The character pushed by the opening .text, subject to the cap.
push_char(cur_chars, new_char) ==
    LET appended == Append(cur_chars, new_char)
    IN  IF Len(appended) > MaxChars THEN Tail1(appended) ELSE appended

text_add_char(m, ln) ==
    LET pos == <<(ln.pos * ScreenWidth) \div 16, ScreenHeight>>
        n == Len(m.cur_chars)
        add_new == IF n = 0 THEN TRUE
                   ELSE m.cur_chars[n].em # ln.sub
                        \/ m.cur_chars[n].name # ln.name
                        \/ m.cur_chars[n].pos # pos
    IN  IF add_new
        THEN [m EXCEPT !.cur_chars =
                 push_char(m.cur_chars,
                           Character(ln.sub, pos, ln.name, ln.char, ln.pos))]
        ELSE m

\* (variant: the new page leaves the index of the viewed page where it is)
text_new_page_keep_index(m, ln) ==
        [m EXCEPT !.prev_dialogue = Append(m.prev_dialogue, <<>>),
                  !.max_prev_index = m.max_prev_index + 1,
                  !.cur_name_text = [set |-> TRUE, string |-> ln.name],
                  !.prev_name_text = Append(m.prev_name_text, ln.name)]

text_new_page(m, ln) ==
        [m EXCEPT !.prev_dialogue = Append(m.prev_dialogue, <<>>),
                  !.prev_text_index = m.prev_text_index + 1,
                  !.max_prev_index = m.max_prev_index + 1,
                  !.cur_name_text = [set |-> TRUE, string |-> ln.name],
                  !.prev_name_text = Append(m.prev_name_text, ln.name)]

text_open(m, ln) ==
    LET m0 == [m EXCEPT !.cur_dialogue = <<>>, !.cur_text_index = 0,
                        !.advance = FALSE]
    IN  IF ~ln.paren
        THEN Uncaught(m0)     \* split("(")[1] of a line without "("
        ELSE
          IF ln.has_char /\ ~PyValid(NumBanks, ln.char)
          THEN Uncaught(m0)   \* the handler's own char_im[cur_char] fails
          ELSE IF ln.has_char
                  /\ m0.char_im[PyPos(NumBanks, ln.char) - 1] = 0
          THEN raise_exception(m0, 51)
          ELSE IF ln.has_char
                  /\ ln.sub > m0.char_im[PyPos(NumBanks, ln.char) - 1] - 1
          THEN raise_exception(m0, 52)
          ELSE IF ln.has_char
                  /\ ~PyValid(m0.char_im[PyPos(NumBanks, ln.char) - 1], ln.sub)
          THEN Uncaught(m0)   \* no image was found and none is raised for
          ELSE
            LET m1 == IF ln.has_char THEN text_add_char(m0, ln) ELSE m0
                m2 == IF ~ln.skip THEN text_new_page(m1, ln) ELSE m1
            IN  Return([m2 EXCEPT !.is_process_text = TRUE], TRUE)

\* text_close without the wait for the advance flag
text_close_no_wait(m) ==
    LET m1 == IF ~m.is_skip /\ ~m.is_auto
              THEN [m EXCEPT !.state = STATE_READ] ELSE m
    IN  Return([m1 EXCEPT !.cur_text_index = 0, !.advance = FALSE,
                          !.is_process_text = FALSE], TRUE)

text_close(m) ==
    LET m1 == IF ~m.is_skip /\ ~m.is_auto
              THEN [m EXCEPT !.state = STATE_READ] ELSE m
        m2 == [m1 EXCEPT !.cur_text_index = 0]
    IN  IF ~m2.advance
        THEN Return(m2, FALSE)
        ELSE Return([m2 EXCEPT !.advance = FALSE, !.is_process_text = FALSE],
                    TRUE)

interpret_text(m, ln) ==
    IF ~m.is_process_text THEN text_open(m, ln) ELSE text_close(m)

(***************************************************************************)
(* interpret_line: .choice, a choice entry, .branch                        *)
(***************************************************************************)
\* (variant: the closing .choice does not wait for a selection)
interpret_choice_no_wait(m) ==
    IF ~m.is_process_choice
    THEN Return([m EXCEPT !.state = STATE_READ, !.advance = FALSE,
                          !.cur_options = <<>>, !.cur_choice = -1,
                          !.is_process_choice = TRUE], TRUE)
    ELSE Return([m EXCEPT !.is_process_choice = FALSE,
                          !.state = STATE_READ, !.advance = FALSE], TRUE)

interpret_choice(m) ==
    IF ~m.is_process_choice
    THEN Return([m EXCEPT !.state = STATE_READ, !.advance = FALSE,
                          !.cur_options = <<>>, !.cur_choice = -1,
                          !.is_process_choice = TRUE], TRUE)
    ELSE IF m.cur_choice = -1
         THEN Return([m EXCEPT !.state = STATE_CHOOSE], FALSE)
         ELSE Return([m EXCEPT !.is_process_choice = FALSE,
                               !.state = STATE_READ, !.advance = FALSE], TRUE)

interpret_option(m, ln) ==
    Return([m EXCEPT !.cur_options =
               Append(m.cur_options, [value |-> ln.id, text |-> ln.txt])], TRUE)

\* (variant: a label that does not match falls through into its body)
interpret_branch_fall_through(m, ln) ==
    IF ln.labelled
    THEN IF ln.label = m.cur_choice
         THEN Return([m EXCEPT !.cur_choice = -1], TRUE)
         ELSE Return(m, TRUE)
    ELSE Return([m EXCEPT !.state = STATE_READ], TRUE)

interpret_branch(m, ln) ==
    IF ln.labelled
    THEN IF ln.label = m.cur_choice
         THEN Return([m EXCEPT !.cur_choice = -1], TRUE)
         ELSE Return([m EXCEPT !.state = STATE_OPT_BRANCH], TRUE)
    ELSE Return([m EXCEPT !.state = STATE_READ], TRUE)

(***************************************************************************)
(* interpret_line: a line of dialogue inside an open text block            *)
(***************************************************************************)
interpret_raw(m, ln) ==
    LET n == Len(m.prev_dialogue)
        m1 == [m EXCEPT !.cur_dialogue = Append(m.cur_dialogue, Text(ln.txt, TRUE, m.scroll_speed)),
                        !.cur_text_index = m.cur_text_index + 1]
    IN  IF ~PyValid(n, m.prev_text_index)
        THEN Uncaught(m1)   \* prev_dialogue[prev_text_index] does not exist
        ELSE Return([m1 EXCEPT
                       !.prev_dialogue[PyPos(n, m.prev_text_index)] =
                           Append(@, ln.txt)], TRUE)

(***************************************************************************)
(* interpret_line: "$var = value", "$var += value", "$var -= value"        *)
(* An operand is an integer literal (lit, with value v) or a name.  The    *)
(* text of a literal consists of digits exactly when v >= 0.               *)
(***************************************************************************)
Lit(k) == [lit |-> TRUE, v |-> k, name |-> Str_empty]
Ref(nm) == [lit |-> FALSE, v |-> 0, name |-> nm]
VarLine(target, sym, operand) ==
    [op |-> "var", target |-> target, sym |-> sym, operand |-> operand]

\* value.isdigit()
isdigit(operand) == operand.lit /\ operand.v >= 0

\* The branch of the cascade: "+" in line, else "-" in line, else "=" in line.
var_operator(ln) ==
    IF ln.sym = "+=" THEN "+"
    ELSE IF ln.sym = "-=" \/ (ln.operand.lit /\ ln.operand.v < 0) THEN "-"
    ELSE "="

\* dict[key] = value
DictSet(d, key, value) ==
    [k \in (DOMAIN d) \cup {key} |-> IF k = key THEN value ELSE d[k]]

interpret_var(m, ln) ==
    LET oper == var_operator(ln)
        known == ln.operand.name \in DOMAIN m.variables
        value == IF isdigit(ln.operand) THEN ln.operand.v
                 ELSE IF ~ln.operand.lit /\ known
                      THEN m.variables[ln.operand.name] ELSE 0
    IN  IF oper = "+" /\ ln.sym # "+=" THEN raise_exception(m, 150)
        ELSE IF oper = "-" /\ ln.sym # "-=" THEN raise_exception(m, 150)
        ELSE IF oper # "=" /\ ln.target \notin DOMAIN m.variables
             THEN raise_exception(m, 150)
        ELSE IF ~isdigit(ln.operand) /\ (ln.operand.lit \/ ~known)
             THEN raise_exception(m, 150)
        ELSE IF oper = "+"
             THEN Return([m EXCEPT !.variables[ln.target] = @ + value], TRUE)
        ELSE IF oper = "-"
             THEN Return([m EXCEPT !.variables[ln.target] = @ - value], TRUE)
        ELSE Return([m EXCEPT !.variables =
                                  DictSet(m.variables, ln.target, value)], TRUE)

(***************************************************************************)
(* interpret_line: ".if var OP value:" and the bare ".if"                  *)
(***************************************************************************)
IfLine(var, cmp, operand) ==
    [op |-> "if", bare |-> FALSE, var |-> var, cmp |-> cmp, operand |-> operand]
IfEnd == [op |-> "if", bare |-> TRUE]

compare(cmp, a, b) ==
    CASE cmp = "<" -> a < b
      [] cmp = "<=" -> a <= b
      [] cmp = ">" -> a > b
      [] cmp = ">=" -> a >= b
      [] cmp = "==" -> a = b
      [] cmp = "!=" -> a # b
      [] OTHER -> FALSE

interpret_if(m, ln) ==
    IF ln.bare THEN Return([m EXCEPT !.state = STATE_READ], TRUE)
    ELSE IF ln.var \notin DOMAIN m.variables THEN raise_exception(m, 150)
    ELSE IF ~isdigit(ln.operand)
            /\ (ln.operand.lit \/ ln.operand.name \notin DOMAIN m.variables)
         THEN raise_exception(m, 150)
    ELSE LET var == m.variables[ln.var]
             comparison == IF isdigit(ln.operand) THEN ln.operand.v
                           ELSE m.variables[ln.operand.name]
         IN  IF compare(ln.cmp, var, comparison)
             THEN Return(m, TRUE)
             ELSE Return([m EXCEPT !.state = STATE_VAR_BRANCH], TRUE)

(***************************************************************************)
(* interpret_line: .scenein and .sceneout                                  *)
(* Scales and zoom rates are counted in tenths: 10 is the float 1.0.       *)
(* nargs is the number of optional scale / target scale / rate arguments.  *)
(* exists tells whether the image file of a .scenein can be loaded.        *)
(***************************************************************************)
SceneIn(type, nargs, scale, target, rate) ==
    [op |-> "scenein", type |-> type, nargs |-> nargs, scale |-> scale,
     target |-> target, rate |-> rate, exists |-> TRUE,
     file |-> <<<<"b", "g">>, <<"r", "o", "o", "m">>>>]
SceneOut(type, nargs, scale, target, rate) ==
    [op |-> "sceneout", type |-> type, nargs |-> nargs, scale |-> scale,
     target |-> target, rate |-> rate]

\* The optional arguments of the zoom forms.
zoom_args(m, ln) ==
    [m EXCEPT !.zoom_scale = IF ln.nargs > 0 THEN ln.scale ELSE @,
              !.target_scale = IF ln.nargs > 1 THEN ln.target ELSE @,
              !.zoom_rate = IF ln.nargs > 2 THEN ln.rate ELSE @]

\* The first call of a .scenein: the effect flags, then the image.
scenein_parse(m, ln) ==
    CASE ln.type = "fade" -> [m EXCEPT !.is_fade_in = TRUE]
      [] ln.type = "zoomin" -> zoom_args([m EXCEPT !.is_zoom_in = TRUE], ln)
      [] ln.type = "zoomout" -> zoom_args([m EXCEPT !.is_zoom_out = TRUE], ln)
      [] ln.type = "fadezoomin" ->
            zoom_args([m EXCEPT !.is_fade_in = TRUE, !.is_zoom_in = TRUE], ln)
      [] ln.type = "fadezoomout" ->
            zoom_args([m EXCEPT !.is_fade_in = TRUE, !.is_zoom_out = TRUE], ln)
      [] OTHER -> m

sceneout_parse(m, ln) ==
    CASE ln.type = "fade" -> [m EXCEPT !.is_fade_out = TRUE]
      [] ln.type = "zoomin" -> zoom_args([m EXCEPT !.is_zoom_in = TRUE], ln)
      [] ln.type = "zoomout" -> zoom_args([m EXCEPT !.is_zoom_out = TRUE], ln)
      [] ln.type = "fadezoomin" ->
            zoom_args([m EXCEPT !.is_fade_out = TRUE, !.is_zoom_in = TRUE], ln)
      [] ln.type = "fadezoomout" ->
            zoom_args([m EXCEPT !.is_fade_out = TRUE, !.is_zoom_out = TRUE], ln)
      [] OTHER -> m

\* (variant: the frame that brings the fade to 255 is the one that ends it)
fade_step_early(m, flag) ==
    IF ~m[flag] THEN [m |-> m, pre_done |-> FALSE]
    ELSE IF m.fade_alpha + m.fade_rate < 255
         THEN [m |-> [m EXCEPT !.fade_alpha = @ + m.fade_rate],
               pre_done |-> TRUE]
         ELSE [m |-> [m EXCEPT ![flag] = FALSE, !.fade_alpha = 0],
               pre_done |-> FALSE]

\* One frame of the fade: [m, pre_done].  flag is "is_fade_in" or "is_fade_out".
fade_step(m, flag) ==
    IF ~m[flag] THEN [m |-> m, pre_done |-> FALSE]
    ELSE IF m.fade_alpha < 255
         THEN [m |-> [m EXCEPT !.fade_alpha = @ + m.fade_rate],
               pre_done |-> TRUE]
         ELSE [m |-> [m EXCEPT ![flag] = FALSE, !.fade_alpha = 0],
               pre_done |-> FALSE]

\* (variant: the zoom ends with the rate the directive gave it)
zoom_reset_keep_rate(m, flag) ==
    [m EXCEPT ![flag] = FALSE, !.zoom_scale = 10, !.target_scale = 10]

zoom_reset(m, flag) ==
    [m EXCEPT ![flag] = FALSE, !.zoom_scale = 10, !.target_scale = 10,
              !.zoom_rate = 1]

\* (variant: a zoom that has reached its target ends the directive, whatever
\* the fade has left to do)
zoom_step_alone(m, pre_done) ==
    IF m.is_zoom_in
    THEN IF m.zoom_scale < m.target_scale
         THEN LET z == Min(m.target_scale, m.zoom_scale + m.zoom_rate)
              IN  [m |-> [m EXCEPT !.zoom_scale = z], pre_done |-> TRUE,
                   err |-> IF z < 0 THEN 90 ELSE 0]
         ELSE [m |-> zoom_reset(m, "is_zoom_in"), pre_done |-> FALSE, err |-> 0]
    ELSE IF m.is_zoom_out
    THEN IF m.zoom_scale > m.target_scale
         THEN LET z == Max(m.target_scale, m.zoom_scale - m.zoom_rate)
              IN  [m |-> [m EXCEPT !.zoom_scale = z], pre_done |-> TRUE,
                   err |-> IF z < 0 THEN 90 ELSE 0]
         ELSE [m |-> zoom_reset(m, "is_zoom_out"), pre_done |-> FALSE, err |-> 0]
    ELSE [m |-> m, pre_done |-> pre_done, err |-> 0]

\* One frame of the zoom, after the fade: [m, pre_done, err].
zoom_step(m, pre_done) ==
    IF m.is_zoom_in
    THEN IF m.zoom_scale < m.target_scale
         THEN LET z == Min(m.target_scale, m.zoom_scale + m.zoom_rate)
              IN  [m |-> [m EXCEPT !.zoom_scale = z], pre_done |-> TRUE,
                   err |-> IF z < 0 THEN 90 ELSE 0]
         ELSE [m |-> IF ~pre_done THEN zoom_reset(m, "is_zoom_in") ELSE m,
               pre_done |-> pre_done, err |-> 0]
    ELSE IF m.is_zoom_out
    THEN IF m.zoom_scale > m.target_scale
         THEN LET z == Max(m.target_scale, m.zoom_scale - m.zoom_rate)
              IN  [m |-> [m EXCEPT !.zoom_scale = z], pre_done |-> TRUE,
                   err |-> IF z < 0 THEN 90 ELSE 0]
         ELSE [m |-> IF ~pre_done THEN zoom_reset(m, "is_zoom_out") ELSE m,
               pre_done |-> pre_done, err |-> 0]
    ELSE [m |-> m, pre_done |-> pre_done, err |-> 0]

interpret_scenein(m, ln) ==
    LET m0 == IF ~m.has_loaded_scene THEN scenein_parse(m, ln) ELSE m
        m1 == IF ~m.has_loaded_scene
              THEN [m0 EXCEPT !.old_scene = IF m0.cur_scene THEN TRUE ELSE @,
                              !.cur_scene = TRUE,
                              !.cur_scene_file = ln.file,
                              !.has_loaded_scene = TRUE]
              ELSE m0
        f == fade_step(m1, "is_fade_in")
        z == zoom_step(f.m, f.pre_done)
    IN  IF ~m.has_loaded_scene /\ ~ln.exists THEN raise_exception(m0, 50)
        ELSE IF z.err # 0 THEN raise_exception(z.m, z.err)
        ELSE IF z.pre_done THEN Return(z.m, FALSE)
        ELSE Return([z.m EXCEPT !.has_loaded_scene = FALSE,
                                !.has_set_auto = FALSE], TRUE)

interpret_sceneout(m, ln) ==
    LET m0 == IF ~m.has_unloaded_scene THEN sceneout_parse(m, ln) ELSE m
        m1 == IF ~m.has_unloaded_scene
              THEN [m0 EXCEPT !.has_unloaded_scene = TRUE] ELSE m0
        f == fade_step(m1, "is_fade_out")
        z == zoom_step(f.m, f.pre_done)
    IN  IF ~m.has_unloaded_scene /\ ~m.cur_scene
        THEN Uncaught(m0)     \* self.cur_scene is None: it has no copy()
        ELSE IF z.err # 0 THEN raise_exception(z.m, z.err)
        ELSE IF z.pre_done THEN Return(z.m, FALSE)
        ELSE Return([z.m EXCEPT !.has_unloaded_scene = FALSE,
                                !.has_set_auto = FALSE], TRUE)

\* the files data/music/<name>.wav
Str_theme == <<"t", "h", "e", "m", "e">>
Str_calm == <<"c", "a", "l", "m">>
MusicExists(name) == name \in {Str_theme, Str_calm}

\* .music(name) and .music()
interpret_music(m, ln) ==
    IF ~ln.paren THEN Uncaught(m)     \* split("(")[1] of a line without "("
    ELSE IF Len(Strip(ln.name)) = 0 THEN Return([m EXCEPT !.music = Str_empty], TRUE)
    ELSE IF ~MusicExists(Strip(ln.name)) THEN raise_exception(m, 55)
    ELSE Return([m EXCEPT !.music = Strip(ln.name)], TRUE)

\* the files data/sound/<name>.wav
Str_ding == <<"d", "i", "n", "g">>
SoundExists(name) == name \in {Str_ding}

\* (variant: skip mode or not, the line is a sound directive)
sound_branch_always(m) == TRUE

\* the condition of the .sound branch, besides the line's first word
sound_branch(m) == ~m.is_skip

\* .sound(name) and .sound()
interpret_sound(m, ln) ==
    IF Len(Strip(ln.name)) > 0
    THEN IF ~SoundExists(Strip(ln.name)) THEN raise_exception(m, 56)
         ELSE Return([m EXCEPT !.sound = Strip(ln.name)], TRUE)
    ELSE IF m.sound = Str_empty THEN Uncaught(m)     \* None has no stop()
    ELSE Return([m EXCEPT !.sound = Str_empty], TRUE)

\* .shake(x, y) and .shake
interpret_shake(m, ln) ==
    IF ~ln.paren
    THEN Return([m EXCEPT !.is_shake = FALSE, !.shake_range = <<0, 0>>], TRUE)
    ELSE IF ln.nargs < 2 THEN raise_exception([m EXCEPT !.is_shake = TRUE], 105)
    ELSE Return([m EXCEPT !.is_shake = TRUE, !.shake_range = <<ln.x, ln.y>>], TRUE)

\* .setfade(N)
SetFade(n) == [op |-> "setfade", form |-> "int", n |-> n]
\* .setfade(x), x not the text of an integer
SetFadeNonInt == [op |-> "setfade", form |-> "nonint", n |-> 0]

\* int(temp) stands outside any try
interpret_setfade(m, ln) ==
    IF ln.form # "int" THEN Uncaught(m)
    ELSE Return([m EXCEPT !.fade_rate = ln.n], TRUE)

(***************************************************************************)
(* interpret_line: .setanchor(name) and .widget(date, anchor).  nargs is   *)
(* the number of arguments of a .widget.                                   *)
(***************************************************************************)
AnchorNames ==
    {"topleft", "midtop", "topright", "midleft", "center", "midright",
     "bottomleft", "midbottom", "bottomright"}

SetAnchor(name) == [op |-> "setanchor", name |-> name]
Widget(nargs, date, anchor) ==
    [op |-> "widget", nargs |-> nargs, date |-> date, anchor |-> anchor]

\* self.anchors[temp] stands outside any try
interpret_setanchor(m, ln) ==
    IF ln.name \notin AnchorNames THEN Uncaught(m)
    ELSE Return([m EXCEPT !.new_anchor_string = ln.name], TRUE)

interpret_widget(m, ln) ==
    IF ln.nargs < 2 THEN raise_exception(m, 200)
    ELSE LET m1 == [m EXCEPT !.ingame_date = Strip(ln.date)]
         IN  IF ln.anchor \notin AnchorNames THEN raise_exception(m1, 250)
             ELSE Return(m1, TRUE)

(***************************************************************************)
(* interpret_line: .forcequit, .hide, .show                                *)
(***************************************************************************)
ForceQuit == [op |-> "forcequit"]
Hide == [op |-> "hide"]
Show == [op |-> "show"]

\* (variant: the frame that reaches the target already returns true)
interpret_hide_early(m) ==
    LET m1 == IF ~m.has_set_hide
              THEN [m EXCEPT !.has_set_hide = TRUE, !.target_hide_alpha = 0]
              ELSE m
    IN  IF m1.hide_alpha - 15 > m1.target_hide_alpha
        THEN Return([m1 EXCEPT !.hide_alpha = Max(0, @ - 15)], FALSE)
        ELSE Return([m1 EXCEPT !.hide_alpha = 0, !.has_set_hide = FALSE], TRUE)

interpret_hide(m) ==
    LET m1 == IF ~m.has_set_hide
              THEN [m EXCEPT !.has_set_hide = TRUE, !.target_hide_alpha = 0]
              ELSE m
    IN  IF m1.hide_alpha > m1.target_hide_alpha
        THEN Return([m1 EXCEPT !.hide_alpha = Max(0, @ - 15)], FALSE)
        ELSE Return([m1 EXCEPT !.has_set_hide = FALSE], TRUE)

interpret_show(m) ==
    LET m1 == IF ~m.has_set_hide
              THEN [m EXCEPT !.has_set_hide = TRUE, !.target_hide_alpha = 255]
              ELSE m
    IN  IF m1.hide_alpha < m1.target_hide_alpha
        THEN Return([m1 EXCEPT !.hide_alpha = Min(255, @ + 15)], FALSE)
        ELSE Return([m1 EXCEPT !.has_set_hide = FALSE], TRUE)

(***************************************************************************)
(* interpret_line: .load(folder, bank).  char_im[bank] counts the images   *)
(* of the bank; CharImages is the number of *.png files that the folder    *)
(* data/images/char/<folder>/ holds.                                       *)
(***************************************************************************)
Str_hero == <<"h", "e", "r", "o">>

CharImages(folder) == IF folder = Str_hero THEN 2 ELSE 0

Load(folder, bank) == [op |-> "load", folder |-> folder, bank |-> bank]

interpret_load(m, ln) ==
    IF CharImages(Strip(ln.folder)) = 0 THEN Return(m, TRUE)
    ELSE IF ~PyValid(NumBanks, ln.bank) THEN raise_exception(m, 50)
    ELSE Return([m EXCEPT !.char_im[PyPos(NumBanks, ln.bank) - 1] =
                              @ + CharImages(Strip(ln.folder))], TRUE)

(***************************************************************************)
(* interpret_line: .load(n) with the one argument n, an index of a bank or *)
(* -1.  The loop runs over cur_chars while it removes from it: after a     *)
(* removal the element that follows the removed one is passed over.        *)
(***************************************************************************)
Unload(n) == [op |-> "unload", n |-> n]

RECURSIVE unload_loop(_, _, _, _)
unload_loop(chars, i, n, clear) ==
    IF i >= Len(chars) THEN [chars |-> chars, clear |-> clear]
    ELSE IF n = chars[i + 1].index \/ n = -1
    THEN IF chars[i + 1].alpha - 24 < 0
         THEN unload_loop(RemoveAt(chars, i + 1), i + 1, n, clear)
         ELSE unload_loop([chars EXCEPT ![i + 1].alpha = @ - 24], i + 1, n, FALSE)
    ELSE unload_loop(chars, i + 1, n, clear)

interpret_unload(m, ln) ==
    IF ~(ln.n < Len(m.cur_chars)) THEN Return(m, TRUE)
    ELSE LET r == unload_loop(m.cur_chars, 0, ln.n, TRUE)
         IN  IF r.clear
             THEN Return([m EXCEPT !.cur_chars =
                             IF ln.n = -1 THEN <<>> ELSE r.chars], TRUE)
             ELSE Return([m EXCEPT !.cur_chars = r.chars], FALSE)

(***************************************************************************)
(* interpret_line: .swap(name).  The handler calls run_scene(name, False), *)
(* whose frame loop runs inside the call: init_members resets the members, *)
(* the lines of the named file replace the script, and the next dispatch   *)
(* is that of its first line.  The call has not returned when that loop    *)
(* starts, so ret is FALSE here and the cursor is not advanced.  A file    *)
(* that does not exist ends the program with exception 0, after the reset. *)
(***************************************************************************)
Swap(name) == [op |-> "swap", name |-> name]

interpret_swap(m, ln) ==
    IF Strip(ln.name) \notin DOMAIN scenes
    THEN [m |-> init_members(m), ret |-> FALSE, err |-> PyError]
    ELSE Return([init_members(m) EXCEPT !.lines = scenes[Strip(ln.name)],
                                        !.cur_file = Strip(ln.name),
                                        !.running = TRUE], FALSE)

(***************************************************************************)
(* interpret_line: the end of the cascade, for a line that matches no      *)
(* directive: a line of dialogue inside a text block, else nothing.        *)
(***************************************************************************)
\* (variant: the line is taken as dialogue whether a text block is open or
\* not)
interpret_default_as_dialogue(m, ln) ==
    IF m.state = STATE_READ
    THEN Return([m EXCEPT !.cur_dialogue =
                    Append(@, Text(ln.txt, TRUE, m.scroll_speed)),
                          !.cur_text_index = @ + 1], TRUE)
    ELSE Return(m, TRUE)

interpret_default(m, ln) ==
    IF m.state = STATE_READ /\ m.is_process_text
    THEN interpret_raw(m, ln)
    ELSE Return(m, TRUE)

(***************************************************************************)
(* Main.interpret_line: the cascade.                                       *)
(***************************************************************************)
interpret_line(m0, ln) ==
    LET m == [m0 EXCEPT !.is_comment = FALSE]
    IN  IF ln.op = "blank" /\ ~m.is_process_text
        THEN Return([m EXCEPT !.is_comment = TRUE], TRUE)
        ELSE CASE ln.op = "forcequit" -> Return([m EXCEPT !.running = FALSE], TRUE)
               [] ln.op = "load" -> interpret_load(m, ln)
               [] ln.op = "unload" -> interpret_unload(m, ln)
               [] ln.op = "text" -> interpret_text(m, ln)
               [] ln.op = "wait" -> interpret_wait(m, ln)
               [] ln.op = "shake" -> interpret_shake(m, ln)
               [] ln.op = "choice" -> interpret_choice(m)
               [] ln.op = "opt" /\ m.is_process_choice -> interpret_option(m, ln)
               [] ln.op = "branch" -> interpret_branch(m, ln)
               [] ln.op = "scenein" -> interpret_scenein(m, ln)
               [] ln.op = "sceneout" -> interpret_sceneout(m, ln)
               [] ln.op = "music" -> interpret_music(m, ln)
               [] ln.op = "sound" /\ sound_branch(m) -> interpret_sound(m, ln)
               [] ln.op = "setanchor" -> interpret_setanchor(m, ln)
               [] ln.op = "setfade" -> interpret_setfade(m, ln)
               [] ln.op = "widget" -> interpret_widget(m, ln)
               [] ln.op = "hide" -> interpret_hide(m)
               [] ln.op = "show" -> interpret_show(m)
               [] ln.op = "swap" -> interpret_swap(m, ln)
               [] ln.op = "var" -> interpret_var(m, ln)
               [] ln.op = "if" -> interpret_if(m, ln)
               [] OTHER -> interpret_default(m, ln)

(***************************************************************************)
(* Main.run_scene: the cursor                                              *)
(***************************************************************************)
\* (variant: the cursor moves on by two lines)
advance_index_by_two(m) ==
    IF m.index + 2 >= Len(m.lines)
    THEN [m EXCEPT !.index = Len(m.lines) - 1, !.finished_scene = TRUE]
    ELSE [m EXCEPT !.index = m.index + 2]

\* (variant: the clamp at the last line does not set finished)
advance_index_unfinished(m) ==
    IF m.index + 1 >= Len(m.lines)
    THEN [m EXCEPT !.index = Len(m.lines) - 1]
    ELSE [m EXCEPT !.index = m.index + 1]

\* self.index += 1, clamped to the last line
advance_index(m) ==
    IF m.index + 1 >= Len(m.lines)
    THEN [m EXCEPT !.index = Len(m.lines) - 1, !.finished_scene = TRUE]
    ELSE [m EXCEPT !.index = m.index + 1]

\* the line a seek stops at
seek_target(m, ln) ==
    IF m.state = STATE_OPT_BRANCH
    THEN ln.op = "branch" /\ ~ln.labelled
    ELSE ln.op = "if"

(***************************************************************************)
(* Character.draw, Text.draw and Main.draw_dialogue                        *)
(***************************************************************************)
character_draw(c) == [c EXCEPT !.alpha = Min(255, IF @ < 255 THEN @ + 12 ELSE @)]

text_draw(x) ==
    IF x.scrollable /\ x.cur_width < x.width
    THEN [x EXCEPT !.cur_width = Min(x.width, @ + x.scroll_speed)]
    ELSE x

\* the loop over cur_dialogue: line i is drawn while i <= display_text_index
RECURSIVE draw_lines(_, _, _)
draw_lines(dlg, i, display_text_index) ==
    IF i > Len(dlg) THEN dlg
    ELSE LET x == IF i - 1 <= display_text_index THEN text_draw(dlg[i]) ELSE dlg[i]
         IN  draw_lines([dlg EXCEPT ![i] = x], i + 1,
                        IF x.width = x.cur_width THEN display_text_index + 1
                        ELSE display_text_index)

\* [m, err]: err is PyError when a backlog page that does not exist is drawn
draw_dialogue(m) ==
    LET m1 == [m EXCEPT !.cur_chars = [i \in DOMAIN @ |-> character_draw(@[i])]]
    IN  IF m1.hide_alpha <= 0 THEN [m |-> m1, err |-> 0]
        ELSE IF m1.prev_text_index = m1.max_prev_index
        THEN [m |-> [m1 EXCEPT !.cur_dialogue = draw_lines(@, 1, 0)], err |-> 0]
        ELSE IF ~PyValid(Len(m1.prev_name_text), m1.prev_text_index)
                \/ ~PyValid(Len(m1.prev_dialogue), m1.prev_text_index)
        THEN [m |-> m1, err |-> PyError]
        ELSE [m |-> m1, err |-> 0]

(***************************************************************************)
(* Main.run_back, Main.run_next, Main.run_auto                             *)
(***************************************************************************)
run_back(m) == [m EXCEPT !.prev_text_index = Max(0, @ - 1)]

dialogue_complete(dlg) == \A i \in DOMAIN dlg : dlg[i].cur_width >= dlg[i].width

run_next(m) ==
    IF m.prev_text_index = m.max_prev_index
    THEN IF dialogue_complete(m.cur_dialogue)
         THEN [m EXCEPT !.advance = TRUE]
         ELSE [m EXCEPT !.cur_dialogue =
                  [i \in DOMAIN @ |->
                      [m.cur_dialogue[i] EXCEPT
                          !.cur_width = Max(@, m.cur_dialogue[i].width)]]]
    ELSE [m EXCEPT !.prev_text_index = Min(m.max_prev_index, @ + 1)]

run_auto(m) ==
    IF m.prev_text_index = m.max_prev_index /\ dialogue_complete(m.cur_dialogue)
    THEN LET c == (IF ~m.has_set_auto THEN m.auto_pause ELSE m.auto_count) - 1
         IN  IF c <= 0
             THEN [m EXCEPT !.auto_count = 0, !.has_set_auto = FALSE,
                            !.advance = TRUE]
             ELSE [m EXCEPT !.auto_count = c, !.has_set_auto = TRUE,
                            !.advance = FALSE]
    ELSE m

(***************************************************************************)
(* Main.run_scene: the pass that lets character images fade in over each   *)
(* other.  [chars, err]: err is PyError when an index of the two loops     *)
(* falls outside the list that the pass itself has shortened.              *)
(***************************************************************************)
RECURSIVE overlap_inner(_, _, _, _)
overlap_inner(chars, i, j, stop) ==
    IF j >= stop THEN [chars |-> chars, err |-> 0]
    ELSE IF i >= Len(chars) \/ j >= Len(chars)
    THEN [chars |-> chars, err |-> PyError]
    ELSE IF chars[i + 1].pos = chars[j + 1].pos /\ chars[j + 1].alpha = 255
    THEN overlap_inner(RemoveAt(chars, i + 1), i, j + 1, stop)
    ELSE overlap_inner(chars, i, j + 1, stop)

RECURSIVE overlap_outer(_, _, _)
overlap_outer(chars, i, stop) ==
    IF i >= stop THEN [chars |-> chars, err |-> 0]
    ELSE LET r == overlap_inner(chars, i, i + 1, Len(chars))
         IN  IF r.err # 0 THEN r ELSE overlap_outer(r.chars, i + 1, stop)

overlap_pass(m) ==
    LET r == overlap_outer(m.cur_chars, 0, Len(m.cur_chars))
    IN  [m |-> [m EXCEPT !.cur_chars = r.chars], err |-> r.err]

\* the part of a frame between the seek and the event loop
after_seek(m) ==
    LET m1 == IF m.is_skip THEN run_next(m)
              ELSE IF m.is_auto THEN run_auto(m) ELSE m
    IN  overlap_pass(m1)

(***************************************************************************)
(* Main.run_scene: the event loop at the end of a frame.  An event is the  *)
(* one input of the frame: none, a click that hits no button and no        *)
(* option, a click on the i-th option, or a click on an in-game button.    *)
(***************************************************************************)
\* (variant: a click that hits no option takes the first one)
click_plain_picks(m) ==
    IF m.state = STATE_READ THEN run_next(m)
    ELSE IF m.state = STATE_CHOOSE /\ m.cur_options # <<>>
    THEN [m EXCEPT !.cur_choice = m.cur_options[1].value, !.advance = TRUE]
    ELSE m

click_plain(m) ==
    IF m.state = STATE_READ THEN run_next(m) ELSE m

click_option(m, i) ==
    [m EXCEPT !.cur_choice = m.cur_options[i].value,
              !.prev_text_index = m.max_prev_index,
              !.advance = TRUE]

\* (variant: Skip toggles whatever auto mode is)
click_button_free(m, value) ==
    CASE value = 4 -> run_back(m)
      [] value = 5 -> run_next(m)
      [] value = 6 -> [m EXCEPT !.is_skip = ~m.is_skip]
      [] value = 7 -> [m EXCEPT !.is_auto = (~m.is_auto /\ ~m.is_skip)]
      [] value = 2 -> [m EXCEPT !.running = FALSE]
      [] OTHER -> m

\* handle_buttons, values 4 to 7 of the in-game buttons
click_button(m, value) ==
    CASE value = 4 -> run_back(m)
      [] value = 5 -> run_next(m)
      [] value = 6 -> [m EXCEPT !.is_skip = (~m.is_skip /\ ~m.is_auto)]
      [] value = 7 -> [m EXCEPT !.is_auto = (~m.is_auto /\ ~m.is_skip)]
      [] value = 2 -> [m EXCEPT !.running = FALSE]
      [] OTHER -> m

(***************************************************************************)
(* Observations of the last frame's dispatch, kept for stating properties: *)
(* whether interpret_line was called, on which line, what it returned, for *)
(* how many consecutive frames that line has been dispatched, the lines    *)
(* dispatched so far, the option picked last, and the Main object as it    *)
(* was before the dispatch; the Main object as it was at the last save,    *)
(* whether a load followed that save, and whether the last step was a load;*)
(* the Main object as it was when the last step opened the save sub-screen;*)
(* the Skip or Auto button that the last step clicked, with the Main       *)
(* object as it was before the click.                                      *)
(***************************************************************************)
CountCap == MaxWait + 3

obs0 == [called |-> FALSE, line |-> -1, ln |-> Blank, ret |-> FALSE,
         count |-> 0, seen |-> {}, pick |-> -1, before |-> <<>>,
         saved |-> <<>>, resumed |-> FALSE, loaded |-> FALSE,
         opened |-> <<>>, clicked |-> <<>>]

observe(o, m, r) ==
    [o EXCEPT !.called = TRUE, !.loaded = FALSE, !.opened = <<>>,
              !.clicked = <<>>,
              !.line = m.index,
              !.ln = m.lines[PyPos(Len(m.lines), m.index)],
              !.ret = r.ret /\ r.err = 0,
              !.count = IF o.line = m.index THEN Min(CountCap, o.count + 1) ELSE 1,
              !.seen = @ \cup {m.index},
              !.before = m]

(***************************************************************************)
(* The frame of Main.run_scene, in three steps: the dispatch of the        *)
(* current line with the advance of the cursor and the drawing, the        *)
(* iterations of a seek, and the rest of the frame with its input.         *)
(***************************************************************************)
Dispatch ==
    /\ pc = "dispatch"
    /\ main.running
    /\ LET called == ~main.finished_scene
           r == IF ~called THEN Return(main, FALSE)
                ELSE IF ~PyValid(Len(main.lines), main.index)
                THEN Uncaught(main)     \* self.lines[self.index]
                ELSE interpret_line(main,
                         main.lines[PyPos(Len(main.lines), main.index)])
           \* a .swap has entered the frame loop of the new scene
           swapped == /\ called /\ r.err = 0
                      /\ PyValid(Len(main.lines), main.index)
                      /\ main.lines[PyPos(Len(main.lines), main.index)].op = "swap"
           m1 == IF called /\ r.err = 0 /\ r.ret THEN advance_index(r.m) ELSE r.m
           d == IF r.err = 0 /\ ~m1.is_comment /\ ~swapped THEN draw_dialogue(m1)
                ELSE [m |-> m1, err |-> r.err]
       IN  /\ main' = [d.m EXCEPT !.error = d.err]
           /\ obs' = IF called /\ PyValid(Len(main.lines), main.index)
                     THEN observe(obs, main, r)
                     ELSE [obs EXCEPT !.called = FALSE, !.loaded = FALSE,
                                      !.opened = <<>>, !.clicked = <<>>]
           /\ pc' = IF d.err # 0 THEN "crashed"
                    ELSE IF swapped THEN "dispatch"
                    ELSE IF ~d.m.is_comment /\ ~d.m.finished_scene
                            /\ d.m.state \in {STATE_OPT_BRANCH, STATE_VAR_BRANCH}
                    THEN "seek"
                    ELSE "events"
    /\ UNCHANGED <<scenes, disk>>

\* one evaluation of the seek's loop condition, and one iteration of its body
SeekStep ==
    /\ pc = "seek"
    /\ IF seek_target(main, main.lines[main.index + 1])
       THEN pc' = "events" /\ main' = main
       ELSE pc' = "seek" /\ main' = advance_index(main)
    /\ UNCHANGED <<scenes, disk, obs>>

\* the rest of the frame, with the Main object that the event handler leaves
\* (handler leaves in member error the exception that ended it, if any)
Events(handler(_)) ==
    /\ pc = "events"
    /\ LET a == after_seek(main)
           m == IF a.err = 0 THEN handler(a.m)
                ELSE [a.m EXCEPT !.error = a.err]
       IN  /\ main' = m
           /\ pc' = IF m.error # 0 THEN "crashed"
                    ELSE IF m.running THEN "dispatch" ELSE "stopped"
    /\ UNCHANGED scenes

no_event(m) == m
NoInput == Events(no_event) /\ UNCHANGED <<obs, disk>>

Click == Events(click_plain) /\ UNCHANGED <<obs, disk>>

ClickOption ==
    \E i \in DOMAIN main.cur_options :
        /\ main.state = STATE_CHOOSE
        /\ LET pick(m) == click_option(m, i) IN Events(pick)
        /\ obs' = [obs EXCEPT !.pick = main.cur_options[i].value]
        /\ UNCHANGED disk

ClickBack ==
    /\ main.target_hide_alpha = 255
    /\ LET h(m) == click_button(m, 4) IN Events(h)
    /\ UNCHANGED <<obs, disk>>

ClickNext ==
    /\ main.target_hide_alpha = 255
    /\ LET h(m) == click_button(m, 5) IN Events(h)
    /\ UNCHANGED <<obs, disk>>

(***************************************************************************)
(* Main.run_scene: entry.  files maps the names of the scene files to      *)
(* their lines.                                                            *)
(***************************************************************************)
Merge(a, b) ==
    [f \in (DOMAIN a) \cup (DOMAIN b) |-> IF f \in DOMAIN b THEN b[f] ELSE a[f]]

run_scene(m, files, filename, is_continue) ==
    LET m1 == IF ~is_continue THEN init_members(m) ELSE m
    IN  [m1 EXCEPT !.lines = files[filename], !.cur_file = filename,
                   !.running = TRUE]

Str_000 == <<"0", "0", "0">>

\* The Main object when new_game enters the starting scene.
Boot == Merge(Merge(init_defaults, Members),
              [lines |-> <<>>, cur_file |-> Str_empty, running |-> FALSE])

StartScene(script) ==
    /\ scenes = [n \in {Str_000} |-> script]
    /\ main = run_scene(Boot, scenes, Str_000, FALSE)
    /\ disk = [exists |-> FALSE, lines |-> <<>>]
    /\ pc = "dispatch"
    /\ obs = obs0

(***************************************************************************)
(* Main.run_save: the lines of the record, as readlines() returns them.    *)
(***************************************************************************)
NL == <<"\n">>
Str_begin == <<"b", "e", "g", "i", "n">>
Str_end == <<"e", "n", "d">>
Str_name == <<"n", "a", "m", "e">>
Str_scene == <<"s", "c", "e", "n", "e">>
Str_shake == <<"s", "h", "a", "k", "e">>
Str_music == <<"m", "u", "s", "i", "c">>
Str_background == <<"b", "a", "c", "k", "g", "r", "o", "u", "n", "d">>
Str_index == <<"i", "n", "d", "e", "x">>
Str_text_index == <<"t", "e", "x", "t", "_", "i", "n", "d", "e", "x">>
Str_widget == <<"w", "i", "d", "g", "e", "t">>
Str_load == <<"l", "o", "a", "d">>
Str_draw == <<"d", "r", "a", "w">>
Str_nonzero_var == <<"n", "o", "n", "z", "e", "r", "o", "_", "v", "a", "r">>
Str_xy == <<"x", "y">>
Str_null == <<"n", "u", "l", "l">>
Str_None == <<"N", "o", "n", "e">>
Colon == <<":", " ">>
Comma == <<",", " ">>

\* the walk back to the second ".text" line at or before the cursor
RECURSIVE save_temp_index(_, _, _)
save_temp_index(lines, temp_index, found_text) ==
    IF temp_index <= 0 THEN temp_index
    ELSE IF lines[temp_index + 1].op = "text"
    THEN IF found_text + 1 = 2 THEN temp_index
         ELSE save_temp_index(lines, temp_index - 1, found_text + 1)
    ELSE save_temp_index(lines, temp_index - 1, found_text)

\* "name: ..." and the lines of page i
save_page(m, i) ==
    <<Str_name \o Colon \o RStrip(m.prev_name_text[i]) \o NL>>
    \o [j \in 1..Len(m.prev_dialogue[i]) |-> m.prev_dialogue[i][j] \o NL]

save_variables(m) ==
    Concat([i \in 1..Len(variable_strings) |->
               IF m.variables[variable_strings[i]] # 0
               THEN <<Str_nonzero_var \o Colon \o variable_strings[i] \o Comma
                      \o FormatInt(m.variables[variable_strings[i]]) \o NL>>
               ELSE <<>>])

\* the "load:" lines: the walk back from the cursor over the .load lines
RECURSIVE save_loads(_, _, _, _)
save_loads(lines, char_index, char_found_count, char_exist_count) ==
    IF char_found_count >= char_exist_count \/ char_index - 1 < 0 THEN <<>>
    ELSE IF lines[char_index].op = "load"
    THEN <<Str_load \o Colon \o lines[char_index].folder \o Comma
           \o FormatInt(lines[char_index].bank) \o NL>>
         \o save_loads(lines, char_index - 1, char_found_count + 1,
                       char_exist_count)
    ELSE save_loads(lines, char_index - 1, char_found_count, char_exist_count)

\* the walk back from the cursor to the nearest line of a directive
RECURSIVE save_walk(_, _, _)
save_walk(lines, i, op) ==
    IF lines[i + 1].op # op /\ i > 0 THEN save_walk(lines, i - 1, op) ELSE i

\* the "music:" line
save_music(m) ==
    LET ln == m.lines[save_walk(m.lines, m.index, "music") + 1]
    IN  IF ln.op = "music" /\ Len(Strip(ln.name)) > 0
        THEN <<Str_music \o Colon \o Strip(ln.name) \o NL>>
        ELSE <<>>

\* the "shake:" line
save_shake(m) ==
    LET ln == m.lines[save_walk(m.lines, m.index, "shake") + 1]
    IN  IF ln.op = "shake" /\ ln.nargs > 1
        THEN <<Str_shake \o Colon \o FormatInt(ln.x) \o Comma
               \o FormatInt(ln.y) \o NL>>
        ELSE <<>>

\* run_save ends in an IndexError: split("(")[1] of the nearest .music or
\* .shake line, when that line has no "("
save_raises(m) ==
    \E op \in {"music", "shake"} :
        LET ln == m.lines[save_walk(m.lines, m.index, op) + 1]
        IN  ln.op = op /\ ~ln.paren

save_draw(char) ==
    Str_draw \o Colon \o FormatInt(char.index) \o Comma \o FormatInt(char.em)
    \o Comma \o FormatInt(char.num) \o Comma \o char.name \o NL

\* (the "datetime:" line, which load_save reads as no field, is left out)
run_save(m) ==
    LET temp_index == save_temp_index(m.lines, m.index, 0)
        char_exist_count == Cardinality({i \in 0..3 : m.char_im[i] > 0})
    IN  <<Str_begin \o NL>>
        \o Concat([i \in 1..Len(m.prev_dialogue) |-> save_page(m, i)])
        \o <<Str_end \o NL, NL,
             Str_scene \o Colon \o m.cur_file \o NL,
             Str_index \o Colon \o Format03(temp_index) \o NL,
             Str_background \o Colon \o m.cur_scene_file[1] \o Comma
                 \o m.cur_scene_file[2] \o NL,
             Str_text_index \o Colon \o FormatInt(m.max_prev_index) \o Comma
                 \o FormatInt(m.max_prev_index) \o NL,
             Str_widget \o Colon \o m.ingame_date \o NL>>
        \o save_variables(m)
        \o save_music(m)
        \o save_shake(m)
        \o save_loads(m.lines, m.index, 0, char_exist_count)
        \o [i \in 1..Len(m.cur_chars) |-> save_draw(m.cur_chars[i])]
        \o <<Str_xy \o Colon \o <<"0">> \o Comma \o <<"0">> \o NL>>

(***************************************************************************)
(* Main.load_save.  A step of the loader yields [m, scene, err]: the Main  *)
(* object, the scene named so far, and PyError when the step ends in an    *)
(* exception (load_save catches none).                                     *)
(***************************************************************************)
Str_bg == <<"b", "g">>
Str_room == <<"r", "o", "o", "m">>

\* the files data/images/<folder>/<file>.png
BackgroundExists(folder, file) == folder = Str_bg /\ file = Str_room

Loaded(m, scene) == [m |-> m, scene |-> scene, err |-> 0]
LoadError(m, scene) == [m |-> m, scene |-> scene, err |-> PyError]

\* list.remove(list[-1]) on the pages: two pages that were read from the
\* record are equal as Python lists only when both are empty
remove_last_page(pages) ==
    IF pages[Len(pages)] = <<>>
    THEN RemoveAt(pages, CHOOSE i \in 1..Len(pages) :
                            /\ pages[i] = <<>>
                            /\ \A j \in 1..(i - 1) : pages[j] # <<>>)
    ELSE RemoveAt(pages, Len(pages))

\* the loop from "begin" to "end"; i is the 0-based index of the line read last
RECURSIVE load_transcript(_, _, _)
load_transcript(m, save_file, i) ==
    IF i + 1 >= Len(save_file) THEN [m |-> m, err |-> PyError]
    ELSE
      LET line == save_file[i + 2]
      IN  IF StartsWith(line, Str_name)
          THEN IF Len(Split(line, ":")) < 2 THEN [m |-> m, err |-> PyError]
               ELSE load_transcript(
                      [m EXCEPT !.cur_text_index = 0,
                                !.prev_name_text =
                                    Append(@, Strip(Split(line, ":")[2])),
                                !.prev_dialogue = Append(@, <<>>)],
                      save_file, i + 1)
          ELSE IF StartsWith(line, Str_end)
          THEN IF m.prev_name_text = <<>> \/ m.prev_dialogue = <<>>
               THEN [m |-> m, err |-> PyError]
               ELSE [m |-> [m EXCEPT
                              !.prev_name_text = RemoveAt(@, Len(@)),
                              !.prev_dialogue = remove_last_page(@)],
                     err |-> 0]
          ELSE IF m.prev_dialogue = <<>> THEN [m |-> m, err |-> PyError]
          ELSE load_transcript(
                 [m EXCEPT !.prev_dialogue[Len(m.prev_dialogue)] =
                               Append(@, Strip(line)),
                           !.cur_text_index = @ + 1],
                 save_file, i + 1)

load_shake(m, scene, temp) ==
    IF Len(temp) < 2 \/ ~IsInt(temp[1]) \/ ~IsInt(temp[2])
    THEN LoadError(m, scene)
    ELSE Loaded([m EXCEPT
                   !.shake_range = <<ParseInt(temp[1]), ParseInt(temp[2])>>,
                   !.is_shake = IF ParseInt(temp[1]) # 0 \/ ParseInt(temp[2]) # 0
                                THEN TRUE ELSE @], scene)

load_music(m, scene, temp) ==
    IF temp = Str_None THEN Loaded(m, scene)
    ELSE IF ~MusicExists(temp) THEN LoadError(m, scene)
    ELSE Loaded([m EXCEPT !.music = temp], scene)

load_background(m, scene, temp) ==
    IF Len(temp) < 2 THEN LoadError(m, scene)
    ELSE IF Strip(temp[1]) = Str_null /\ Strip(temp[2]) = Str_null
    THEN Loaded([m EXCEPT !.cur_scene = FALSE, !.old_scene = FALSE], scene)
    ELSE IF ~BackgroundExists(Strip(temp[1]), Strip(temp[2]))
    THEN LoadError([m EXCEPT !.old_scene = FALSE], scene)
    ELSE Loaded([m EXCEPT !.old_scene = FALSE, !.cur_scene = TRUE,
                          !.cur_scene_file = <<temp[1], temp[2]>>], scene)

load_text_index(m, scene, temp) ==
    IF ~IsInt(temp[1]) \/ Len(temp) < 2 THEN LoadError(m, scene)
    ELSE IF ~IsInt(temp[2]) THEN LoadError(m, scene)
    ELSE Loaded([m EXCEPT !.prev_text_index = ParseInt(temp[1]) - 1,
                          !.max_prev_index = ParseInt(temp[2]) - 1], scene)

load_bank(m, scene, temp) ==
    IF CharImages(Strip(temp[1])) = 0 THEN Loaded(m, scene)
    ELSE IF Len(temp) < 2 THEN LoadError(m, scene)
    ELSE IF ~IsInt(temp[2]) THEN LoadError(m, scene)
    ELSE IF ~PyValid(NumBanks, ParseInt(temp[2])) THEN LoadError(m, scene)
    ELSE Loaded([m EXCEPT !.char_im[PyPos(NumBanks, ParseInt(temp[2])) - 1] =
                              @ + CharImages(Strip(temp[1]))], scene)

load_draw(m, scene, temp) ==
    IF ~IsInt(temp[1]) \/ Len(temp) < 2 THEN LoadError(m, scene)
    ELSE IF ~IsInt(temp[2]) \/ ~PyValid(NumBanks, ParseInt(temp[1]))
    THEN LoadError(m, scene)
    ELSE IF ~PyValid(m.char_im[PyPos(NumBanks, ParseInt(temp[1])) - 1],
                     ParseInt(temp[2]))
    THEN LoadError(m, scene)
    ELSE IF Len(temp) < 3 THEN LoadError(m, scene)
    ELSE IF ~IsInt(temp[3]) \/ Len(temp) < 4 THEN LoadError(m, scene)
    ELSE LET pos == <<(ParseInt(temp[3]) * ScreenWidth) \div 16, ScreenHeight>>
             new_char == Character(ParseInt(temp[2]), pos, RStrip(temp[4]),
                                   ParseInt(temp[1]), ParseInt(temp[3]))
         IN  Loaded([m EXCEPT !.cur_chars = push_char(@, new_char)], scene)

load_nonzero_var(m, scene, temp) ==
    IF Len(temp) < 2 THEN LoadError(m, scene)
    ELSE IF ~IsInt(temp[2]) THEN LoadError(m, scene)
    ELSE Loaded([m EXCEPT !.variables =
                    DictSet(@, Strip(temp[1]), ParseInt(temp[2]))], scene)

\* one line of the record outside the transcript
load_field(m, scene, line) ==
    LET field == Split(line, ":")
        Is(key) == StartsWith(line, key)
        known == \E key \in {Str_scene, Str_shake, Str_music, Str_background,
                             Str_index, Str_text_index, Str_widget, Str_load,
                             Str_draw, Str_nonzero_var} : Is(key)
    IN  IF ~known THEN Loaded(m, scene)
        ELSE IF Len(field) < 2 THEN LoadError(m, scene)
        ELSE
          CASE Is(Str_scene) -> Loaded(m, Strip(field[2]))
            [] Is(Str_shake) -> load_shake(m, scene, Split(field[2], ","))
            [] Is(Str_music) -> load_music(m, scene, Strip(field[2]))
            [] Is(Str_background) ->
                  load_background(m, scene, Split(field[2], ","))
            [] Is(Str_index) ->
                  IF ~IsInt(field[2]) THEN LoadError(m, scene)
                  ELSE Loaded([m EXCEPT !.index = ParseInt(field[2])], scene)
            [] Is(Str_text_index) ->
                  load_text_index(m, scene, Split(field[2], ","))
            [] Is(Str_widget) ->
                  Loaded([m EXCEPT !.ingame_date = Strip(field[2])], scene)
            [] Is(Str_load) -> load_bank(m, scene, Split(field[2], ","))
            [] Is(Str_draw) -> load_draw(m, scene, Split(field[2], ","))
            [] Is(Str_nonzero_var) ->
                  load_nonzero_var(m, scene, Split(field[2], ","))

\* for i in range(len(save_file)): the loop's own i, which the transcript
\* loop does not move
RECURSIVE load_fields(_, _, _, _)
load_fields(m, save_file, i, scene) ==
    IF i >= Len(save_file) THEN Loaded(m, scene)
    ELSE
      LET line == save_file[i + 1]
          r == IF StartsWith(line, Str_begin)
               THEN LET x == load_transcript(m, save_file, i)
                    IN  [m |-> x.m, scene |-> scene, err |-> x.err]
               ELSE load_field(m, scene, line)
      IN  IF r.err # 0 THEN r
          ELSE load_fields(r.m, save_file, i + 1, r.scene)

\* The Main object that load_save leaves; its member error is PyError when
\* load_save, or the raise_exception(0) of run_scene, ended in an exception.
load_save(m, save_file, files) ==
    LET r == load_fields(init_members(m), save_file, 0, <<"0">>)
    IN  IF r.err # 0 THEN [r.m EXCEPT !.error = r.err]
        ELSE IF r.scene \notin DOMAIN files
        THEN [r.m EXCEPT !.fade_alpha = 0, !.error = PyError]
        ELSE run_scene([r.m EXCEPT !.fade_alpha = 0], files, r.scene, TRUE)

(***************************************************************************)
(* The in-game buttons 0 (save) and 1 (load).  There is one slot.  The     *)
(* player saves into the slot while it is empty, and loads a record once.  *)
(***************************************************************************)
\* run_save from "old_state = self.state" on: the sub-loop runs in state
\* SAVE until the player leaves it
run_save_enter(m) == [m EXCEPT !.state = STATE_SAVE]

\* (variant: the sub-screen is left in the state it ran in)
run_save_leave_in_save(m, old_state) == m

\* self.state = old_state
run_save_leave(m, old_state) == [m EXCEPT !.state = old_state]

click_save(m) ==
    IF save_raises(m) THEN [m EXCEPT !.error = PyError]
    ELSE run_save_leave(run_save_enter(m), m.state)

ClickSave ==
    /\ main.target_hide_alpha = 255
    /\ ~disk.exists
    /\ after_seek(main).err = 0
    /\ Events(click_save)
    /\ disk' = IF save_raises(after_seek(main).m) THEN disk
               ELSE [exists |-> TRUE, lines |-> run_save(after_seek(main).m)]
    /\ obs' = [obs EXCEPT !.saved = after_seek(main).m, !.resumed = FALSE,
                          !.opened = after_seek(main).m]

\* the player opens the sub-screen and leaves it with Back or Escape
ClickSaveBack ==
    /\ main.target_hide_alpha = 255
    /\ after_seek(main).err = 0
    /\ ~save_raises(after_seek(main).m)
    /\ Events(click_save)
    /\ obs' = [obs EXCEPT !.opened = after_seek(main).m]
    /\ UNCHANGED disk

ClickLoad ==
    /\ main.target_hide_alpha = 255
    /\ after_seek(main).err = 0
    /\ disk.exists
    /\ ~obs.resumed
    /\ LET continue_game(m) == load_save(m, disk.lines, scenes)
       IN  Events(continue_game)
    /\ obs' = [obs0 EXCEPT !.saved = obs.saved, !.resumed = TRUE,
                           !.loaded = TRUE]
    /\ UNCHANGED disk

(***************************************************************************)
(* Spec: the scene loop on scripts of waits, text blocks, choices,         *)
(* branches and conditionals, with the player's clicks.                    *)
(***************************************************************************)
Str_A == <<"A">>
Str_Hi == <<"H", "i">>

Alphabet ==
    {Blank, Raw(Str_Hi), Wait(2), TextName(Str_A), TextEnd, ChoiceLine,
     Option(0, Str_A), BranchTo(0), BranchEnd,
     IfLine(Str_aa, "==", Lit(1)), IfEnd}

GeneratedScripts == UNION {[1..n -> Alphabet] : n \in 1..MaxLen}

WaitScripts == {<<Wait(n), Raw(Str_Hi), Wait(k)>> : n \in 0..MaxWait, k \in 1..2}

\* a choice of options 0 and 1 with one labelled branch for each
Bodies ==
    {<<VarLine(Str_aa, "+=", Lit(1))>>,
     <<Blank, VarLine(Str_aa, "+=", Lit(1))>>,
     <<VarLine(Str_aa, "+=", Lit(1)), Wait(2), Blank>>,
     <<TextName(Str_A), Raw(Str_Hi), TextEnd>>}

ChoiceScript(body0, body1) ==
    <<ChoiceLine, Option(0, Str_A), Option(1, Str_Hi), ChoiceLine, BranchTo(0)>>
    \o body0 \o <<BranchEnd, BranchTo(1)>> \o body1 \o <<BranchEnd, Raw(Str_Hi)>>

ChoiceScripts == {ChoiceScript(b0, b1) : b0 \in Bodies, b1 \in Bodies}

\* one page of dialogue, its closing .text, and a line after it
TextScript == <<TextName(Str_A), Raw(Str_Hi), TextEnd, Blank>>

Scripts == GeneratedScripts \cup WaitScripts \cup ChoiceScripts \cup {TextScript}

Init == \E script \in Scripts : StartScene(script)

Next ==
    \/ Dispatch
    \/ SeekStep
    \/ NoInput
    \/ Click
    \/ ClickOption
    \/ ClickBack
    \/ ClickNext

Spec == Init /\ [][Next]_vars

(***************************************************************************)
(* Properties of the scene loop.                                           *)
(***************************************************************************)
LastIndex == Len(main.lines) - 1

\* the frame dispatched a well-formed .wait(N) with N >= 1
WaitDispatched ==
    obs.called /\ obs.ln.op = "wait" /\ obs.ln.form = "int" /\ obs.ln.n >= 1

\* C1 as stated: a .wait(N), N >= 1, returns false on the first N frames on
\* which the cursor is on it and true on frame N + 1.
C1_WaitBlocksNTicks ==
    WaitDispatched => (obs.ret <=> obs.count = obs.ln.n + 1)

\* C1 as amended: a .wait(N), N >= 1, returns false on the first N - 1 frames
\* on which the cursor is on it and true on frame N; the countdown is set to N
\* on the first of these frames only and goes down by one on each of them.
C1_WaitAdvancesOnTickN ==
    WaitDispatched =>
        /\ obs.ret <=> obs.count = obs.ln.n
        /\ ~obs.ret => /\ main.has_set_wait
                       /\ main.wait_count = obs.ln.n - obs.count
                       /\ main.index = obs.line
        /\ obs.ret => /\ ~main.has_set_wait
                      /\ main.wait_count = 0
                      /\ main.index = Min(obs.line + 1, LastIndex)

\* a .wait(MaxWait) returned true on its frame MaxWait and the cursor moved
C1_Witness ==
    /\ WaitDispatched /\ obs.ln.n = MaxWait /\ obs.ret /\ obs.count = MaxWait
    /\ main.index = obs.line + 1

\* the frame's cursor movement is over: the dispatch and the seek are done
CursorSettled == obs.called /\ pc \in {"events", "dispatch", "stopped"}

Seeking == main.state \in {STATE_OPT_BRANCH, STATE_VAR_BRANCH}

CursorMoves ==
    \/ pc = "dispatch" /\ pc' # "dispatch" /\ obs'.called /\ obs'.ret
    \/ pc = "seek" /\ ~seek_target(main, main.lines[main.index + 1])

\* C3: the cursor stays within the script, 0 <= index <= len(lines) - 1, also
\* during and after a seek, and finished is set exactly by an advance or a
\* seek iteration that would move the cursor past the last line.
C3_CursorInBounds ==
    /\ [](0 <= main.index /\ main.index <= LastIndex)
    /\ [][(~main.finished_scene /\ main'.finished_scene)
            <=> (~main.finished_scene /\ CursorMoves /\ main.index = LastIndex)]_vars

\* a seek that has run past the last line
C3_Witness ==
    pc = "seek" /\ main.finished_scene /\ main.index = LastIndex /\ LastIndex >= 2

IsChoiceScript == main.lines \in ChoiceScripts

LabelLine(k) == CHOOSE i \in 0..LastIndex : main.lines[i + 1] = BranchTo(k)

BodyEnd(k) ==
    CHOOSE j \in 0..LastIndex :
        /\ j > LabelLine(k)
        /\ main.lines[j + 1] = BranchEnd
        /\ \A h \in (LabelLine(k) + 1)..(j - 1) : main.lines[h + 1] # BranchEnd

BranchBody(k) == (LabelLine(k) + 1)..(BodyEnd(k) - 1)

\* C9: with options 0 and 1 and the branches ".branch 0:" and ".branch 1:",
\* no line of a labelled branch is interpreted before a pick, after a pick of
\* k no line of the other branch's body is, and the body of ".branch k:" has
\* been interpreted in full when the scene is finished.
C9_OnlyPickedBranch ==
    IsChoiceScript =>
        /\ obs.pick = -1 => obs.seen \cap (BranchBody(0) \cup BranchBody(1)) = {}
        /\ \A k \in {0, 1} :
              obs.pick = k =>
                 /\ obs.seen \cap BranchBody(1 - k) = {}
                 /\ main.finished_scene => BranchBody(k) \subseteq obs.seen

C9_Witness ==
    /\ IsChoiceScript /\ obs.pick = 1 /\ main.finished_scene
    /\ BranchBody(1) \subseteq obs.seen
    /\ Len(main.lines) > 14

(***************************************************************************)
(* SpecVar: scripts of variable mutations and conditionals.                *)
\* the frame has dispatched a line and has not yet handled its input
Dispatched == obs.called /\ pc = "events"

\* the frame dispatched a .text line while a text block was open
TextCloseDispatched ==
    Dispatched /\ obs.ln.op = "text" /\ obs.before.is_process_text

\* C11: in the script .text(name=A) / Hi / .text / (blank), with skip and auto
\* off, the first .text returns true, creates one empty page named A and
\* opens the text block, and Hi is appended to that page; a .text met while
\* the block is open returns false with the cursor left on it and the state
\* READ on every frame whose advance flag is false, and with the flag set it
\* returns true, clears the flag and the text-block flag, and the cursor
\* moves past it.
C11_TextBlocksUntilAdvance ==
    /\ (main.lines = TextScript /\ Dispatched /\ obs.line = 0) =>
          /\ obs.ret /\ main.index = 1 /\ main.is_process_text
          /\ main.prev_dialogue = << <<>> >>
          /\ main.prev_name_text = <<Str_A>>
          /\ main.prev_text_index = 0 /\ main.max_prev_index = 0
    /\ (main.lines = TextScript /\ Dispatched /\ obs.line = 1) =>
          /\ obs.ret /\ main.index = 2 /\ main.is_process_text
          /\ main.prev_dialogue = << <<Str_Hi>> >>
          /\ Len(main.cur_dialogue) = 1
          /\ main.cur_dialogue[1].string = Str_Hi
    /\ (TextCloseDispatched /\ ~obs.before.advance) =>
          /\ ~obs.ret /\ main.index = obs.line
          /\ main.state = STATE_READ /\ main.is_process_text
          /\ ~main.advance
    /\ (TextCloseDispatched /\ obs.before.advance) =>
          /\ obs.ret /\ ~main.advance /\ ~main.is_process_text
          /\ main.index = Min(obs.line + 1, LastIndex)

\* the closing .text of the script blocked for a frame, then a click
\* signalled advance and the cursor moved past it
C11_Witness ==
    /\ main.lines = TextScript /\ TextCloseDispatched /\ obs.line = 2
    /\ obs.count >= 2 /\ obs.ret /\ main.index = 3

\* C12: whenever at least one dialogue page exists, the page viewed lies
\* between the first page and the latest one: 0 <= prev_text_index <=
\* max_prev_index, whatever Back and Next clicks came before.
C12_PageIndexInBounds ==
    Len(main.prev_dialogue) >= 1 =>
        /\ 0 <= main.prev_text_index
        /\ main.prev_text_index <= main.max_prev_index

\* the frame dispatched a .choice line
ChoiceDispatched == Dispatched /\ obs.ln.op = "choice"

\* C14: the opening .choice empties the option list, sets the selection to
\* -1 and returns true; the closing .choice returns false, in state CHOOSE
\* and with the cursor left on it, on every frame on which the selection is
\* -1, and once a selection exists it returns true with the state READ and
\* the choice-processing flag cleared.
C14_ChoiceBlocksUntilPicked ==
    /\ (ChoiceDispatched /\ ~obs.before.is_process_choice) =>
          /\ obs.ret /\ main.cur_options = <<>> /\ main.cur_choice = -1
          /\ main.is_process_choice
          /\ main.index = Min(obs.line + 1, LastIndex)
    /\ (ChoiceDispatched /\ obs.before.is_process_choice
                          /\ obs.before.cur_choice = -1) =>
          /\ ~obs.ret /\ main.state = STATE_CHOOSE /\ main.index = obs.line
          /\ main.is_process_choice /\ main.cur_choice = -1
    /\ (ChoiceDispatched /\ obs.before.is_process_choice
                          /\ obs.before.cur_choice # -1) =>
          /\ obs.ret /\ main.state = STATE_READ /\ ~main.is_process_choice
          /\ main.cur_choice = obs.before.cur_choice
          /\ main.index = Min(obs.line + 1, LastIndex)

\* a closing .choice blocked for a frame and, after a pick of option 1,
\* returned true
C14_Witness ==
    /\ ChoiceDispatched /\ obs.before.is_process_choice /\ obs.count >= 2
    /\ obs.ret /\ obs.pick = 1 /\ main.cur_choice = 1
    /\ main.index = obs.line + 1

(***************************************************************************)
MaxVarLines == 2    \* longest generated script of variable lines

Names == {Str_aa, Str_ab, Str_a1}
Operands == {Lit(0), Lit(3), Lit(-1), Ref(Str_aa), Ref(Str_ab), Ref(Str_a1)}

VarLines ==
    {VarLine(v, sym, o) : v \in Names, sym \in {"=", "+=", "-="}, o \in Operands}
    \cup {IfLine(v, cmp, o) : v \in Names, cmp \in {"==", "<"},
                              o \in {Lit(0), Ref(Str_ab), Ref(Str_a1)}}

\* $aa=5, $aa+=3, $aa-=1
RoundTripScript ==
    <<VarLine(Str_aa, "=", Lit(5)), VarLine(Str_aa, "+=", Lit(3)),
      VarLine(Str_aa, "-=", Lit(1))>>

VarScripts ==
    UNION {[1..n -> VarLines] : n \in 1..MaxVarLines} \cup {RoundTripScript}

InitVar == \E script \in VarScripts : StartScene(script)

NextVar ==
    \/ Dispatch
    \/ SeekStep
    \/ NoInput

SpecVar == InitVar /\ [][NextVar]_vars

\* the names "$aa" .. "$zz"
Allocated == Range(variable_strings)

\* the value of an operand that is a literal or an allocated variable
OperandValue(o) == IF o.lit THEN o.v ELSE obs.before.variables[o.name]

Expected(ln) ==
    CASE ln.sym = "=" -> OperandValue(ln.operand)
      [] ln.sym = "+=" -> obs.before.variables[ln.target] + OperandValue(ln.operand)
      [] ln.sym = "-=" -> obs.before.variables[ln.target] - OperandValue(ln.operand)

\* the frame dispatched a mutation of an allocated variable by a literal
\* or by an allocated variable
MutationDispatched ==
    /\ obs.called /\ obs.ln.op = "var"
    /\ obs.ln.target \in Allocated
    /\ obs.ln.operand.lit \/ obs.ln.operand.name \in Allocated
    /\ DOMAIN obs.before.variables = Allocated

\* C5: "$v=k", "$v+=k", "$v-=k" and the forms with operand "$w" set, add or
\* subtract the operand, change no other variable and return true, for every
\* integer literal k; "$aa=5", "$aa+=3", "$aa-=1" leave "$aa" equal to 7.
C5_VariableMutation ==
    /\ MutationDispatched =>
          /\ obs.ret
          /\ main.variables =
                [obs.before.variables EXCEPT ![obs.ln.target] = Expected(obs.ln)]
    /\ (main.lines = RoundTripScript /\ main.finished_scene) =>
          main.variables[Str_aa] = 7

\* The same for the literals that consist of digits (k >= 0): this holds.
C5_DigitsOnly ==
    /\ (MutationDispatched /\ (obs.ln.operand.lit => obs.ln.operand.v >= 0)) =>
          /\ obs.ret
          /\ main.variables =
                [obs.before.variables EXCEPT ![obs.ln.target] = Expected(obs.ln)]
    /\ (main.lines = RoundTripScript /\ main.finished_scene) =>
          main.variables[Str_aa] = 7

\* the frame dispatched a mutation or a conditional that names an
\* identifier outside "$aa" .. "$zz", as its target or as its operand
UnknownDispatched ==
    /\ obs.called /\ obs.ln.op \in {"var", "if"}
    /\ DOMAIN obs.before.variables = Allocated
    /\ \/ obs.ln.op = "var" /\ obs.ln.target \notin Allocated
       \/ obs.ln.op = "if" /\ obs.ln.var \notin Allocated
       \/ ~obs.ln.operand.lit /\ obs.ln.operand.name \notin Allocated

\* C6: such a directive ends in the fatal script error (number 150) and
\* leaves the Variable Store as it was.
C6_UnknownVariableIsFatal ==
    UnknownDispatched =>
        /\ pc = "crashed" /\ main.error = 150
        /\ main.variables = obs.before.variables

(***************************************************************************)
(* SpecTrans: scripts of one .setfade, one .scenein and one .sceneout,     *)
(* with fades, zooms and their combinations.  Fade rates that do and do    *)
(* not divide 255; zoom rates that are positive, zero and negative.        *)
(***************************************************************************)
FadeRates == {5, 100}

ZoomConfigs ==
    {[nargs |-> 0, scale |-> 10, target |-> 10, rate |-> 1],
     [nargs |-> 2, scale |-> 5, target |-> 10, rate |-> 1],
     [nargs |-> 2, scale |-> 15, target |-> 10, rate |-> 1],
     [nargs |-> 3, scale |-> 10, target |-> 14, rate |-> 3],
     [nargs |-> 3, scale |-> 14, target |-> 10, rate |-> 3],
     [nargs |-> 3, scale |-> 2, target |-> 10, rate |-> -1],
     [nargs |-> 3, scale |-> 10, target |-> 9, rate |-> 0],
     [nargs |-> 3, scale |-> 0, target |-> 100, rate |-> 2]}

ZoomTypes == {"zoomin", "zoomout", "fadezoomin", "fadezoomout"}

SceneIns ==
    {SceneIn("none", 0, 10, 10, 1), SceneIn("fade", 0, 10, 10, 1)}
    \cup {SceneIn(t, z.nargs, z.scale, z.target, z.rate) :
             t \in ZoomTypes, z \in ZoomConfigs}

SceneOuts ==
    {SceneOut("fade", 0, 10, 10, 1), SceneOut("zoomout", 2, 10, 7, 1),
     SceneOut("fadezoomin", 3, 10, 40, 5), SceneOut("fadezoomout", 3, 10, 8, 1)}

TransScripts ==
    {<<SetFade(r), si, so>> : r \in FadeRates, si \in SceneIns, so \in SceneOuts}

InitTrans == \E script \in TransScripts : StartScene(script)

NextTrans ==
    \/ Dispatch
    \/ NoInput
    \/ Click

SpecTrans == InitTrans /\ [][NextTrans]_vars

\* the frame dispatched a .scenein or a .sceneout and the dispatch returned
TransDispatched ==
    obs.called /\ obs.ln.op \in {"scenein", "sceneout"} /\ main.error = 0

\* the Main object the frame's fade and zoom started from: on the first
\* frame of a directive, the one with its arguments applied
Started ==
    IF obs.ln.op = "scenein"
    THEN IF obs.before.has_loaded_scene THEN obs.before
         ELSE scenein_parse(obs.before, obs.ln)
    ELSE IF obs.before.has_unloaded_scene THEN obs.before
         ELSE sceneout_parse(obs.before, obs.ln)

Fading == Started.is_fade_in \/ Started.is_fade_out
ZoomingIn == Started.is_zoom_in
ZoomingOut == ~Started.is_zoom_in /\ Started.is_zoom_out

\* the frame's fade or zoom reached its target
FadeReached == Fading /\ Started.fade_alpha < 255 /\ main.fade_alpha >= 255
ZoomReached ==
    \/ /\ ZoomingIn
       /\ Started.zoom_scale < Started.target_scale
       /\ main.zoom_scale >= Started.target_scale
    \/ /\ ZoomingOut
       /\ Started.zoom_scale > Started.target_scale
       /\ main.zoom_scale <= Started.target_scale

\* the zoom moved toward its target without passing it
ZoomToward ==
    /\ ZoomingIn =>
          /\ Started.zoom_scale <= main.zoom_scale
          /\ Started.zoom_scale < Started.target_scale =>
                main.zoom_scale <= Started.target_scale
    /\ ZoomingOut =>
          /\ Started.zoom_scale >= main.zoom_scale
          /\ Started.zoom_scale > Started.target_scale =>
                main.zoom_scale >= Started.target_scale

\* C4 as stated: on every frame on which a .scenein or .sceneout returns
\* false, fade_alpha does not fall and zoom_scale (with a positive rate)
\* moves toward target_scale without passing it; the directive returns true
\* on the frame on which the last target is reached, and on no frame before.
C4_TrueWhenTargetReached ==
    TransDispatched =>
        /\ ~obs.ret => (Fading => main.fade_alpha >= Started.fade_alpha)
        /\ (~obs.ret /\ Started.zoom_rate > 0) => ZoomToward
        /\ (FadeReached /\ main.zoom_scale = main.target_scale) => obs.ret
        /\ (ZoomReached /\ ~main.is_fade_in /\ ~main.is_fade_out) => obs.ret

\* the directive has nothing left to do when the frame starts: no fade below
\* 255 and no zoom short of its target
NothingLeft ==
    /\ Fading => Started.fade_alpha >= 255
    /\ ZoomingIn => Started.zoom_scale >= Started.target_scale
    /\ ZoomingOut => Started.zoom_scale <= Started.target_scale

\* C4 as amended: the directive returns true exactly on the frames that start
\* with nothing left to do, so the frame that reaches the last target still
\* returns false and the next one returns true.  On a frame that returns
\* false a fade below 255 rises by fade_rate (it may pass 255), a fade that
\* has reached 255 while the zoom goes on is switched off with fade_alpha
\* back at 0, and a zoom with a positive rate moves toward target_scale by at
\* most zoom_rate without passing it.
C4_TrueOnFrameAfterTarget ==
    TransDispatched =>
        /\ obs.ret <=> NothingLeft
        /\ (FadeReached \/ ZoomReached) => ~obs.ret
        /\ (Fading /\ Started.fade_alpha < 255) =>
              main.fade_alpha = Started.fade_alpha + Started.fade_rate
        /\ (~obs.ret /\ Fading /\ Started.fade_alpha >= 255) =>
              main.fade_alpha = 0 /\ ~main.is_fade_in /\ ~main.is_fade_out
        /\ (~obs.ret /\ Started.zoom_rate > 0) =>
              /\ ZoomToward
              /\ main.zoom_scale - Started.zoom_scale <= Started.zoom_rate
              /\ Started.zoom_scale - main.zoom_scale <= Started.zoom_rate

\* a fade reached 255 with no zoom left to do, and the frame returned false
C4_Witness ==
    /\ TransDispatched /\ ~obs.ret
    /\ FadeReached
    /\ main.zoom_scale = main.target_scale

(***************************************************************************)
(* SpecSave: scripts of two variable mutations and two dialogue pages,     *)
(* with a save and a load at any frame.  The dialogue is plain text, text  *)
(* that begins like the "end" of the transcript, and text that reads like  *)
(* a field of the record.                                                  *)
(***************************************************************************)
Str_B == <<"B">>
Str_ending == <<"e", "n", "d", " ", "o", "f", " ", "i", "t">>
Str_like_field == <<"n", "o", "n", "z", "e", "r", "o", "_", "v", "a", "r", ":", " ", "$", "a", "b", ",", " ", "3">>

PageBodies ==
    {<<>>, <<Raw(Str_Hi)>>, <<Raw(Str_ending)>>, <<Raw(Str_like_field)>>}

SaveScript(b1, b2) ==
    <<VarLine(Str_aa, "=", Lit(5)), VarLine(Str_zz, "-=", Lit(2)),
      TextName(Str_A)>> \o b1 \o <<TextEnd, TextName(Str_B)>> \o b2
    \o <<TextEnd>>

SaveScripts == {SaveScript(b1, b2) : b1 \in PageBodies, b2 \in PageBodies}

InitSave == \E script \in SaveScripts : StartScene(script)

NextSave ==
    \/ Dispatch
    \/ NoInput
    \/ Click
    \/ ClickSave
    \/ ClickLoad

SpecSave == InitSave /\ [][NextSave]_vars

\* the last step loaded a record
JustLoaded == obs.loaded /\ obs.resumed

\* the record was written while the cursor waited on the closing .text of
\* a page
SavedAtPage ==
    /\ obs.saved # <<>>
    /\ obs.saved.is_process_text
    /\ obs.saved.lines[obs.saved.index + 1] = TextEnd

\* after the load the cursor is back on the closing .text it was saved on
BackAtPage ==
    /\ obs.resumed /\ SavedAtPage
    /\ ~obs.loaded
    /\ main.is_process_text
    /\ main.index = obs.saved.index

\* C7: a record saved at a dialogue page loads without an exception, and
\* when the cursor is back on that page the backlog and the speaker names
\* are, page for page and line for line, those of the buffer that was saved.
C7_BacklogRoundTrip ==
    /\ (JustLoaded /\ SavedAtPage) => pc # "crashed"
    /\ (BackAtPage /\ pc # "crashed") =>
          /\ main.prev_dialogue = obs.saved.prev_dialogue
          /\ main.prev_name_text = obs.saved.prev_name_text

\* no line of the saved backlog begins with "end" or reads like a field
PlainBacklog ==
    \A i \in 1..Len(obs.saved.prev_dialogue) :
        /\ obs.saved.prev_dialogue[i] # <<>>
        /\ \A j \in 1..Len(obs.saved.prev_dialogue[i]) :
              obs.saved.prev_dialogue[i][j] = Str_Hi

\* The same for the records whose pages all hold plain lines: this holds.
C7_PlainBacklog ==
    /\ (JustLoaded /\ SavedAtPage /\ PlainBacklog) => pc # "crashed"
    /\ (BackAtPage /\ PlainBacklog /\ pc # "crashed") =>
          /\ main.prev_dialogue = obs.saved.prev_dialogue
          /\ main.prev_name_text = obs.saved.prev_name_text

\* C8: after a load every variable has the value it had when the record was
\* saved.
C8_VariablesRoundTrip ==
    (JustLoaded /\ pc # "crashed") => main.variables = obs.saved.variables

\* The same for the records with a backlog of plain lines: this holds.
C8_PlainBacklog ==
    (JustLoaded /\ PlainBacklog /\ pc # "crashed") =>
        main.variables = obs.saved.variables

(***************************************************************************)
(* SpecChars: scripts that load a bank of character images and open        *)
(* MaxPages pages, each with a character, at positions that are all        *)
(* different or that repeat.  The slot is empty or holds a record with     *)
(* MaxPages "draw:" lines, which the player may load at any frame.  The    *)
(* player either clicks on every frame until the scene is finished, or     *)
(* turns auto mode on before the first page and then leaves the pages to   *)
(* it.                                                                     *)
(***************************************************************************)
MaxPages == 9

CharPage(k, pos) == <<TextChar(0, k % 2, pos, Str_A), TextEnd>>

CharScripts ==
    {<<Load(Str_hero, 0)>> \o Concat([k \in 1..MaxPages |-> CharPage(k, k - 1)]),
     <<Load(Str_hero, 0)>> \o Concat([k \in 1..MaxPages |-> CharPage(k, k % 3)])}

DrawRecord ==
    <<Str_begin \o NL, Str_name \o Colon \o Str_A \o NL, Str_end \o NL, NL,
      Str_scene \o Colon \o Str_000 \o NL,
      Str_index \o Colon \o Format03(0) \o NL,
      Str_load \o Colon \o Str_hero \o Comma \o FormatInt(0) \o NL>>
    \o [k \in 1..MaxPages |->
           save_draw(Character(k % 2, <<0, 0>>, Str_A, 0, k - 1))]

InitChars ==
    \E script \in CharScripts :
      \E slot \in {[exists |-> FALSE, lines |-> <<>>],
                   [exists |-> TRUE, lines |-> DrawRecord]} :
        /\ scenes = [n \in {Str_000} |-> script]
        /\ main = run_scene(Boot, scenes, Str_000, FALSE)
        /\ disk = slot
        /\ pc = "dispatch"
        /\ obs = obs0

Idle ==
    /\ main.is_auto \/ main.finished_scene \/ main.cur_chars = <<>>
    /\ NoInput

ClickEveryFrame == ~main.is_auto /\ Click

ClickAuto ==
    /\ main.target_hide_alpha = 255
    /\ ~main.is_auto /\ main.cur_chars = <<>>
    /\ LET h(m) == click_button(m, 7) IN Events(h)
    /\ UNCHANGED <<obs, disk>>

NextChars ==
    \/ Dispatch
    \/ Idle
    \/ ClickEveryFrame
    \/ ClickAuto
    \/ ClickLoad

SpecChars == InitChars /\ [][NextChars]_vars

\* two characters with the same image, place and name
SameCharacter(a, b) ==
    /\ a.em = b.em /\ a.pos = b.pos /\ a.name = b.name
    /\ a.index = b.index /\ a.num = b.num

\* the frame's dispatch was an opening .text that pushed a character
CharacterPushed ==
    /\ obs.called /\ pc = "events" /\ obs.ret
    /\ obs.ln.op = "text" /\ ~obs.before.is_process_text
    /\ obs.ln.paren /\ obs.ln.has_char
    /\ LET chars == obs.before.cur_chars
           last == chars[Len(chars)]
       IN  \/ chars = <<>>
           \/ last.em # obs.ln.sub
           \/ last.name # obs.ln.name
           \/ last.num # obs.ln.pos

\* C10: the list of displayed characters never holds more than 8 entries;
\* an opening .text that pushes a character onto a list of 8, and a record
\* whose "draw:" lines number more than 8, leave the last 8 in the order in
\* which they were added.
C10_AtMostEightCharacters ==
    /\ Len(main.cur_chars) <= 8
    /\ (CharacterPushed /\ Len(obs.before.cur_chars) = 8) =>
          /\ Len(main.cur_chars) = 8
          /\ \A i \in 1..7 :
                SameCharacter(main.cur_chars[i], obs.before.cur_chars[i + 1])
          /\ main.cur_chars[8].num = obs.ln.pos
          /\ main.cur_chars[8].em = obs.ln.sub
          /\ main.cur_chars[8].alpha = 12
    /\ (JustLoaded /\ pc # "crashed" /\ disk.lines = DrawRecord) =>
          /\ Len(main.cur_chars) = 8
          /\ \A i \in 1..8 : main.cur_chars[i].num = MaxPages - 9 + i

\* a .text pushed a ninth character, after the load of a record of more
\* than 8 "draw:" lines
C10_Witness ==
    /\ CharacterPushed /\ Len(obs.before.cur_chars) = 8
    /\ obs.resumed

(***************************************************************************)
(* Scene swaps: scene 000 ends with a .swap to scene 001 or to a scene     *)
(* that does not exist.                                                    *)
(***************************************************************************)
Str_001 == <<"0", "0", "1">>
Str_002 == <<"0", "0", "2">>

SwapHeads ==
    {<<Blank>>,
     <<VarLine(Str_aa, "=", Lit(5))>>,
     <<TextName(Str_A), Raw(Str_Hi), TextEnd>>,
     <<Load(Str_hero, 0), TextChar(0, 0, 3, Str_A), Raw(Str_Hi), TextEnd>>}

SwapTails ==
    {<<Blank, Wait(2)>>,
     <<VarLine(Str_aa, "+=", Lit(1))>>,
     <<TextName(Str_B), Raw(Str_Hi), TextEnd>>}

InitSwap ==
    \E head \in SwapHeads, tail \in SwapTails, target \in {Str_001, Str_002} :
        /\ scenes = (Str_000 :> (head \o <<Swap(target)>>)) @@ (Str_001 :> tail)
        /\ main = run_scene(Boot, scenes, Str_000, FALSE)
        /\ disk = [exists |-> FALSE, lines |-> <<>>]
        /\ pc = "dispatch"
        /\ obs = obs0

NextSwap ==
    \/ Dispatch
    \/ NoInput
    \/ Click

SpecSwap == InitSwap /\ [][NextSwap]_vars

\* the last step dispatched a .swap and entered the new scene
SwapDispatched == obs.called /\ obs.ln.op = "swap" /\ pc = "dispatch"

\* C13: a .swap starts the named scene at its first line and leaves the
\* variables, the backlog with its indices, the displayed characters and the
\* loaded character banks as they were before it.
C13_SwapKeepsState ==
    SwapDispatched =>
        /\ main.lines = scenes[obs.ln.name] /\ main.index = 0
        /\ main.variables = obs.before.variables
        /\ main.prev_dialogue = obs.before.prev_dialogue
        /\ main.prev_name_text = obs.before.prev_name_text
        /\ main.prev_text_index = obs.before.prev_text_index
        /\ main.max_prev_index = obs.before.max_prev_index
        /\ main.cur_chars = obs.before.cur_chars
        /\ main.char_im = obs.before.char_im

(***************************************************************************)
(* Conditionals: two .if lines in sequence, each with a one-line body,     *)
(* closed by a bare .if.  The conditions compare $aa, which stays 0, with  *)
(* a literal or with $ab, which stays 0; the bodies change $zz only.       *)
(***************************************************************************)
Comparisons == {"<", "<=", ">", ">=", "==", "!="}

Conditions ==
    {IfLine(Str_aa, cmp, operand) :
        cmp \in Comparisons, operand \in {Lit(0), Lit(1), Ref(Str_ab)}}

IfScript(c1, c2) ==
    <<c1, VarLine(Str_zz, "+=", Lit(1)), c2, VarLine(Str_zz, "+=", Lit(2)),
      IfEnd, Blank>>

InitIf == \E c1 \in Conditions, c2 \in Conditions : StartScene(IfScript(c1, c2))

NextIf ==
    \/ Dispatch
    \/ SeekStep
    \/ NoInput

SpecIf == InitIf /\ [][NextIf]_vars

\* the value of the condition of a conditional of these scripts
ConditionHolds(ln) ==
    compare(ln.cmp, 0, IF ln.operand.lit THEN ln.operand.v ELSE 0)

\* C15: of each conditional that was dispatched, the body is interpreted
\* when its condition is true and is not interpreted when it is false; this
\* includes a true conditional reached by the seek of a false one before it.
C15_IfBodyIffTrue ==
    \A i \in {0, 2} :
        (main.finished_scene /\ i \in obs.seen) =>
            (ConditionHolds(main.lines[i + 1]) <=> (i + 1) \in obs.seen)

(***************************************************************************)
(* Characters leaving the stage: both banks are loaded, one to MaxShown    *)
(* characters enter, each with a page of its own, they stay for the frames *)
(* of a .wait, long enough for the last one to become opaque, and a        *)
(* .load(n) follows.  The player clicks on every frame.                    *)
(***************************************************************************)
MaxShown == 3
StageFrames == 24

Entrances ==
    {<<TextChar(c, e, 3, Str_A), TextEnd>> : c \in {0, 1}, e \in {0, 1}}
    \cup {<<TextChar(0, 0, 5, Str_A), TextEnd>>}

UnloadScripts ==
    {<<Load(Str_hero, 0), Load(Str_hero, 1)>> \o Concat(es)
        \o <<Wait(StageFrames), Unload(n), Blank>> :
        es \in UNION {[1..k -> Entrances] : k \in 1..MaxShown}, n \in -1..2}

InitUnload == \E script \in UnloadScripts : StartScene(script)

NextUnload ==
    \/ Dispatch
    \/ Idle
    \/ ClickEveryFrame

SpecUnload == InitUnload /\ [][NextUnload]_vars

\* the frame dispatched a .load(n) of one argument
UnloadDispatched == Dispatched /\ obs.ln.op = "unload"

\* the displayed characters that a .load(n) is to remove
Matching(chars, n) == {i \in DOMAIN chars : n = -1 \/ chars[i].index = n}

\* C16: a .load(n) returns false on every frame after which a character of
\* bank n (any character, for n = -1) is still displayed, and returns true
\* only when none remains.
C16_UnloadBlocksWhileDisplayed ==
    UnloadDispatched => (obs.ret <=> Matching(main.cur_chars, obs.ln.n) = {})

\* the displayed characters that stand behind a newer, opaque character at
\* the same position
Covered(chars) ==
    {i \in DOMAIN chars :
        \E j \in DOMAIN chars :
            j > i /\ chars[j].pos = chars[i].pos /\ chars[j].alpha = 255}

\* chars without the elements at the positions of S, in order
Without(chars, S) ==
    LET keep == DOMAIN chars \ S
    IN  [k \in 1..Cardinality(keep) |->
            chars[CHOOSE i \in keep : Cardinality({x \in keep : x <= i}) = k]]

\* C17: whenever a frame runs the overlap pass, the pass completes and
\* removes exactly the characters that stand behind a newer character of
\* alpha 255 at the same position.
C17_OverlapRemovesOlder ==
    pc = "events" =>
        /\ overlap_pass(main).err = 0
        /\ overlap_pass(main).m.cur_chars =
               Without(main.cur_chars, Covered(main.cur_chars))

(***************************************************************************)
(* Hiding and showing the interface: scripts of .hide, .show and blank     *)
(* lines.                                                                  *)
(***************************************************************************)
HideScripts == UNION {[1..n -> {Hide, Show, Blank}] : n \in 1..MaxLen}

InitHide == \E script \in HideScripts : StartScene(script)

NextHide ==
    \/ Dispatch
    \/ NoInput
    \/ Click

SpecHide == InitHide /\ [][NextHide]_vars

\* C18: hide_alpha stays within 0..255.  A .hide has the target 0 and a
\* .show the target 255: a frame that finds hide_alpha off the target moves
\* it 15 closer, not past the target, and returns false; a frame that finds
\* it on the target returns true and leaves it there.  The distance to the
\* target so shrinks on every blocking frame, and the line resolves after
\* at most 18 frames.
C18_HideShowStep ==
    /\ main.hide_alpha \in 0..255
    /\ (Dispatched /\ obs.ln.op = "hide") =>
          /\ main.target_hide_alpha = 0
          /\ IF obs.before.hide_alpha > 0
             THEN /\ ~obs.ret /\ main.index = obs.line
                  /\ main.hide_alpha = Max(0, obs.before.hide_alpha - 15)
             ELSE obs.ret /\ main.hide_alpha = 0
    /\ (Dispatched /\ obs.ln.op = "show") =>
          /\ main.target_hide_alpha = 255
          /\ IF obs.before.hide_alpha < 255
             THEN /\ ~obs.ret /\ main.index = obs.line
                  /\ main.hide_alpha = Min(255, obs.before.hide_alpha + 15)
             ELSE obs.ret /\ main.hide_alpha = 255

\* a .show that follows a .hide has brought hide_alpha back from 0 to 255
\* and returned true
C18_Witness ==
    /\ Dispatched /\ obs.ln.op = "show" /\ obs.ret /\ main.hide_alpha = 255
    /\ obs.line >= 1 /\ main.lines[obs.line].op = "hide"
    /\ obs.count >= 2

(***************************************************************************)
(* Malformed directives: one directive, well formed or not, after up to    *)
(* two blank lines and before a line of its own kind or a blank line.      *)
(***************************************************************************)
Str_day == <<"d", "a", "y">>

Directives ==
    {Wait(1), WaitNonInt, SetFade(5), SetFadeNonInt,
     SetAnchor("midtop"), SetAnchor("middle"),
     Widget(2, Str_day, "topleft"), Widget(2, Str_day, "middle"),
     Widget(1, Str_day, "topleft"),
     VarLine(Str_aa, "=", Lit(1)), VarLine(Str_aa, "=", Ref(Str_a1)),
     Other}

DirectiveScripts ==
    {head \o <<d1, d2>> :
        head \in {<<>>, <<Blank>>, <<Blank, Blank>>},
        d1 \in Directives, d2 \in Directives \cup {Blank}}

InitDirective == \E script \in DirectiveScripts : StartScene(script)

NextDirective ==
    \/ Dispatch
    \/ NoInput
    \/ Click

SpecDirective == InitDirective /\ [][NextDirective]_vars

\* a directive with a non-integer where an integer is required, with a
\* missing parameter, or with an anchor name outside the nine names
Malformed(ln) ==
    \/ ln.op \in {"wait", "setfade"} /\ ln.form # "int"
    \/ ln.op = "setanchor" /\ ln.name \notin AnchorNames
    \/ ln.op = "widget" /\ (ln.nargs < 2 \/ ln.anchor \notin AnchorNames)

\* C19: the dispatch of a malformed directive ends the scene loop with a
\* script error, one of the numbered errors of raise_exception, which carry
\* the line number and the scene file; it fails in no other way.
C19_MalformedEndsInScriptError ==
    (obs.called /\ Malformed(obs.ln)) => (pc = "crashed" /\ main.error > 0)

\* the members that the dispatch of a line may leave changed when the
\* handler changes nothing: the cursor with its end flag, the comment flag
\* that every call of interpret_line clears, what the drawing of the frame
\* moves, and the record of the error
FrameMembers ==
    {"index", "finished_scene", "is_comment", "cur_chars", "cur_dialogue",
     "error"}

\* C20: a line that matches no form of the language, dispatched while no
\* text block is open, returns true, and its handler leaves every member as
\* it was (the comment flag, cleared by every call, apart); the cursor
\* advances.
C20_UnrecognizedLineIsNoOp ==
    (Dispatched /\ obs.ln.op = "other" /\ ~obs.before.is_process_text) =>
        /\ obs.ret
        /\ interpret_line(obs.before, obs.ln).m =
               [obs.before EXCEPT !.is_comment = FALSE]
        /\ \A f \in DOMAIN main \ FrameMembers : main[f] = obs.before[f]
        /\ main.cur_dialogue = obs.before.cur_dialogue
        /\ main.index = Min(obs.line + 1, LastIndex)

\* an unrecognized line between a blank line and a directive was dispatched
\* and the cursor moved past it
C20_Witness ==
    /\ Dispatched /\ obs.ln.op = "other" /\ obs.ret
    /\ ~obs.before.is_process_text
    /\ obs.line >= 1 /\ main.lines[obs.line] = Blank
    /\ main.index = obs.line + 1 /\ main.lines[main.index + 1] = Wait(1)


(***************************************************************************)
(* The fade value of the scene transitions, over SpecTrans.                *)
(***************************************************************************)
\* C21: fade_alpha stays within 0..255 in every reachable state, for every
\* fade rate that .setfade(N) installs and every sequence of fades.
C21_FadeAlphaInRange ==
    0 <= main.fade_alpha /\ main.fade_alpha <= 255


(***************************************************************************)
(* SpecPages: two text blocks one after the other, the second opened with  *)
(* a speaker name or with skip, read with clicks and with the Back and     *)
(* Next buttons.                                                           *)
(***************************************************************************)
PageLines ==
    {<<>>, <<Raw(Str_Hi)>>, <<Raw(Str_Hi), Raw(Str_B)>>, <<Raw(Str_ending)>>}

PageOpeners == {TextName(Str_B), TextSkip}

PageScript(b1, o2, b2) ==
    <<TextName(Str_A)>> \o b1 \o <<TextEnd, o2>> \o b2 \o <<TextEnd, Blank>>

PageScripts ==
    {PageScript(b1, o2, b2) : b1 \in PageLines, o2 \in PageOpeners, b2 \in PageLines}

InitPages == \E script \in PageScripts : StartScene(script)

NextPages ==
    \/ Dispatch
    \/ NoInput
    \/ Click
    \/ ClickBack
    \/ ClickNext

SpecPages == InitPages /\ [][NextPages]_vars

\* the frame dispatched a line of dialogue inside an open text block
RawDispatched ==
    /\ obs.called /\ pc \in {"events", "crashed"}
    /\ obs.ln.op = "raw"
    /\ obs.before.is_process_text /\ obs.before.state = STATE_READ

\* C22: a line of dialogue interpreted inside an open text block is appended
\* to the backlog entry of the page at max_prev_index, the page that the
\* most recent .text opened, whatever page the Back button has selected.
C22_BacklogCopyOnNewestPage ==
    RawDispatched =>
        /\ obs.ret
        /\ PyValid(Len(obs.before.prev_dialogue), obs.before.max_prev_index)
        /\ main.prev_dialogue =
              [obs.before.prev_dialogue EXCEPT
                  ![obs.before.max_prev_index + 1] = Append(@, obs.ln.txt)]


(***************************************************************************)
(* The "index:" field of a record, over SpecSave.  The scripts of SpecSave *)
(* have no branches, and the record is written before any load: the page   *)
(* that is current at save time is the one opened by the last opening      *)
(* .text line above the cursor.                                            *)
(***************************************************************************)
\* the value of the "index:" line of a record
SavedIndex(save_file) ==
    LET i == CHOOSE k \in 1..Len(save_file) :
                 StartsWith(save_file[k], Str_index \o Colon)
    IN  ParseInt(Split(save_file[i], ":")[2])

\* the 0-based index of the opening .text of the page that is current in m
PageStart(m) ==
    LET opened == {i \in 0..(m.index - 1) :
                      /\ m.lines[i + 1].op = "text"
                      /\ m.lines[i + 1].paren
                      /\ ~m.lines[i + 1].skip}
    IN  CHOOSE i \in opened : \A j \in opened : j <= i

\* a record was written while the backlog held a page
SavedWithPage ==
    /\ disk.exists /\ obs.saved # <<>>
    /\ obs.saved.max_prev_index >= 0

\* C23: the "index:" field of a record is the line index of the opening
\* .text of the page that was current when the record was written, wherever
\* the cursor stood.
C23_SavedIndexIsPageStart ==
    SavedWithPage => SavedIndex(disk.lines) = PageStart(obs.saved)


(***************************************************************************)
(* SpecResume: a page of dialogue, then a line that changes a variable,    *)
(* then a .wait; the player saves into the empty slot and loads the        *)
(* record once.                                                            *)
(***************************************************************************)
ResumeHeads == {<<>>, <<VarLine(Str_zz, "-=", Lit(2))>>}

ResumeMutations ==
    {<<>>, <<VarLine(Str_aa, "=", Lit(5))>>, <<VarLine(Str_aa, "+=", Lit(1))>>}

ResumeScript(head, mid) ==
    head \o <<TextName(Str_A), Raw(Str_Hi), TextEnd>> \o mid \o <<Wait(2), Blank>>

ResumeScripts ==
    {ResumeScript(head, mid) : head \in ResumeHeads, mid \in ResumeMutations}

InitResume == \E script \in ResumeScripts : StartScene(script)

NextResume ==
    \/ Dispatch
    \/ NoInput
    \/ Click
    \/ ClickSave
    \/ ClickLoad

SpecResume == InitResume /\ [][NextResume]_vars

\* the record was written while the cursor stood on the .wait after the page
SavedAtWait ==
    /\ disk.exists /\ obs.saved # <<>>
    /\ obs.saved.lines[obs.saved.index + 1].op = "wait"

\* the record was loaded and the cursor is back on the line it was saved on
BackAtSavedLine ==
    /\ obs.resumed /\ ~obs.loaded /\ pc # "crashed"
    /\ main.index = obs.saved.index

\* C24: when a record has been loaded and the cursor is back on the line
\* where the record was written, the variables have the values they had when
\* it was written.
C24_NoMutationTwice ==
    (SavedAtWait /\ BackAtSavedLine) => main.variables = obs.saved.variables


(***************************************************************************)
(* SpecMusic: a .music and a .shake line, a conditional whose body may     *)
(* hold another .music or .shake, and a page of dialogue; the condition is *)
(* true or false.  The player saves into the empty slot.                   *)
(***************************************************************************)
MusicHeads == {<<>>, <<VarLine(Str_aa, "=", Lit(1))>>}

MusicBodies ==
    {<<>>, <<Music(Str_calm)>>, <<Shake(3, 4)>>, <<Music(Str_calm), Shake(3, 4)>>}

MusicTails == {<<>>, <<ShakeOff>>, <<Music(Str_empty)>>}

MusicScript(head, body, tail) ==
    head \o <<Music(Str_theme), Shake(1, 2), IfLine(Str_aa, "==", Lit(1))>>
    \o body \o <<IfEnd>> \o tail \o <<TextName(Str_A), Raw(Str_Hi), TextEnd>>

MusicScripts ==
    {MusicScript(head, body, tail) :
        head \in MusicHeads, body \in MusicBodies, tail \in MusicTails}

InitMusic == \E script \in MusicScripts : StartScene(script)

NextMusic ==
    \/ Dispatch
    \/ SeekStep
    \/ NoInput
    \/ Click
    \/ ClickSave

SpecMusic == InitMusic /\ [][NextMusic]_vars

\* the lines of a record that begin with "<key>: "
FieldLines(save_file, key) ==
    {k \in 1..Len(save_file) : StartsWith(save_file[k], key \o Colon)}

\* the name in the "music:" line of a record, empty when it has none
SavedMusic(save_file) ==
    IF FieldLines(save_file, Str_music) = {} THEN Str_empty
    ELSE LET k == CHOOSE i \in FieldLines(save_file, Str_music) : TRUE
         IN  Strip(Split(save_file[k], ":")[2])

\* the pair in the "shake:" line of a record, <<0, 0>> when it has none
SavedShake(save_file) ==
    IF FieldLines(save_file, Str_shake) = {} THEN <<0, 0>>
    ELSE LET k == CHOOSE i \in FieldLines(save_file, Str_shake) : TRUE
             temp == Split(Split(save_file[k], ":")[2], ",")
         IN  <<ParseInt(temp[1]), ParseInt(temp[2])>>

\* C25: a save at the page of dialogue writes a record whose "music:" field
\* names the music that the last executed .music started, and whose "shake:"
\* field holds the range that the last executed .shake set.
C25_SavedMusicAndShake ==
    (obs.saved # <<>> /\ obs.saved.is_process_text) =>
        /\ disk.exists
        /\ SavedMusic(disk.lines) = obs.saved.music
        /\ SavedShake(disk.lines) = obs.saved.shake_range


(***************************************************************************)
(* SpecBanks: .load lines that fill one bank, a bank above 3, the same     *)
(* bank twice, or two banks, then a page of dialogue that shows a          *)
(* character of a loaded bank.  The player saves into the empty slot.      *)
(***************************************************************************)
BankLoads ==
    {<<Load(Str_hero, 0)>>, <<Load(Str_hero, 5)>>,
     <<Load(Str_hero, 0), Load(Str_hero, 0)>>,
     <<Load(Str_hero, 0), Load(Str_hero, 1)>>,
     <<Load(Str_hero, 0), Load(Str_hero, 1), Load(Str_hero, 1)>>}

BankScripts ==
    {loads \o <<TextChar(c, e, 3, Str_A), Raw(Str_Hi), TextEnd>> :
        loads \in BankLoads, c \in {0, 1, 5}, e \in {1, 3}}

InitBanks == \E script \in BankScripts : StartScene(script)

NextBanks ==
    \/ Dispatch
    \/ Idle
    \/ ClickEveryFrame
    \/ ClickSave

SpecBanks == InitBanks /\ [][NextBanks]_vars

\* the comma-separated values of line k of a record
FieldValues(save_file, k) == Split(Split(save_file[k], ":")[2], ",")

\* the number of images that the "load:" lines k, k + 1, ... of a record
\* put into bank b
RECURSIVE RestoredImages(_, _, _)
RestoredImages(save_file, b, k) ==
    IF k > Len(save_file) THEN 0
    ELSE (IF /\ StartsWith(save_file[k], Str_load \o Colon)
             /\ ParseInt(FieldValues(save_file, k)[2]) = b
          THEN CharImages(Strip(FieldValues(save_file, k)[1])) ELSE 0)
         + RestoredImages(save_file, b, k + 1)

\* C26: for every "draw:" line of a record, the "load:" lines of the record
\* restore the bank it names, with the image it names.
C26_DrawnBanksAreRestored ==
    disk.exists =>
        \A k \in FieldLines(disk.lines, Str_draw) :
            RestoredImages(disk.lines, ParseInt(FieldValues(disk.lines, k)[1]), 1)
                > ParseInt(FieldValues(disk.lines, k)[2])


(***************************************************************************)
(* SpecRedraw: one bank, one page of dialogue that shows a character of    *)
(* it.  The player saves into the empty slot and loads the record once.    *)
(***************************************************************************)
RedrawScripts ==
    {<<Load(Str_hero, 0), TextChar(0, e, p, Str_A), Raw(Str_Hi), TextEnd, Blank>> :
        e \in {0, 1}, p \in {3, 5}}

InitRedraw == \E script \in RedrawScripts : StartScene(script)

NextRedraw ==
    \/ Dispatch
    \/ Idle
    \/ ClickEveryFrame
    \/ ClickSave
    \/ ClickLoad

SpecRedraw == InitRedraw /\ [][NextRedraw]_vars

\* C27: the characters that a load rebuilds from the "draw:" lines of a
\* record have, one for one, the bank, the emotion, the slot and the name of
\* the characters that were on stage when the record was written, and the
\* opening .text of the page, interpreted again after the load, pushes no
\* character.
C27_RebuiltCharactersAreEqual ==
    /\ (JustLoaded /\ SavedAtPage /\ pc # "crashed") =>
          /\ Len(main.cur_chars) = Len(obs.saved.cur_chars)
          /\ \A i \in 1..Len(main.cur_chars) :
                /\ main.cur_chars[i].index = obs.saved.cur_chars[i].index
                /\ main.cur_chars[i].em = obs.saved.cur_chars[i].em
                /\ main.cur_chars[i].num = obs.saved.cur_chars[i].num
                /\ main.cur_chars[i].name = obs.saved.cur_chars[i].name
    /\ (obs.resumed /\ SavedAtPage /\ Dispatched /\ obs.ln.op = "text"
          /\ ~obs.before.is_process_text) =>
          Len(main.cur_chars) = Len(obs.before.cur_chars)


(***************************************************************************)
(* The opening .text, over SpecPages.                                      *)
(***************************************************************************)
\* the frame dispatched an opening .text
TextOpenDispatched ==
    /\ obs.called /\ pc \in {"events", "crashed"}
    /\ obs.ln.op = "text" /\ ~obs.before.is_process_text
    /\ obs.ln.paren

\* C28: an opening .text without skip appends one page, the speaker's name
\* with an empty list of lines, to the backlog and raises prev_text_index
\* and max_prev_index by one; with skip it appends no page and leaves both
\* indices; either way it empties the live page, clears advance, opens the
\* text block and returns true.
C28_TextOpenAppendsOnePage ==
    TextOpenDispatched =>
        /\ obs.ret
        /\ main.cur_dialogue = <<>> /\ main.cur_text_index = 0
        /\ ~main.advance
        /\ main.is_process_text
        /\ IF obs.ln.skip
           THEN /\ main.prev_dialogue = obs.before.prev_dialogue
                /\ main.prev_name_text = obs.before.prev_name_text
                /\ main.prev_text_index = obs.before.prev_text_index
                /\ main.max_prev_index = obs.before.max_prev_index
           ELSE /\ main.prev_dialogue = Append(obs.before.prev_dialogue, <<>>)
                /\ main.prev_name_text =
                      Append(obs.before.prev_name_text, obs.ln.name)
                /\ main.prev_text_index = obs.before.prev_text_index + 1
                /\ main.max_prev_index = obs.before.max_prev_index + 1

\* the second page was opened, without skip, while the first page's backlog
\* held a line and the first click had set advance
C28_Witness ==
    /\ TextOpenDispatched /\ pc = "events"
    /\ obs.ln = TextName(Str_B)
    /\ obs.before.prev_dialogue = <<<<Str_Hi>>>>
    /\ obs.before.cur_dialogue # <<>>
    /\ main.prev_dialogue = <<<<Str_Hi>>, <<>>>>
    /\ main.max_prev_index = 1


(***************************************************************************)
(* The combined transitions, over SpecTrans.                               *)
(***************************************************************************)
\* the frame dispatched a fadezoomin or a fadezoomout
CombinedDispatched ==
    TransDispatched /\ obs.ln.type \in {"fadezoomin", "fadezoomout"}

\* what the directive has left to do when the frame starts
FadeRunning == Fading /\ Started.fade_alpha < 255
ZoomRunning ==
    \/ ZoomingIn /\ Started.zoom_scale < Started.target_scale
    \/ ZoomingOut /\ Started.zoom_scale > Started.target_scale

\* C29: a fadezoomin or fadezoomout returns true only on a frame on which
\* neither its fade nor its zoom has anything left to do, whichever of the
\* two was done first; while the fade or the zoom is still running it
\* returns false and the cursor stays on the line.
C29_CombinedWaitsForBoth ==
    CombinedDispatched =>
        /\ obs.ret => (~FadeRunning /\ ~ZoomRunning)
        /\ (FadeRunning \/ ZoomRunning) =>
              (~obs.ret /\ main.index = obs.line)

\* the fade of a combined transition was done first, and the frame returned
\* false because the zoom was still running
C29_Witness ==
    /\ CombinedDispatched
    /\ Fading /\ Started.fade_alpha >= 255
    /\ ZoomRunning
    /\ ~obs.ret /\ main.index = obs.line
    /\ ~main.is_fade_in /\ ~main.is_fade_out


(***************************************************************************)
(* SpecSeek: scripts of conditionals, branch labels and blank lines, in    *)
(* which a seek may or may not find its target below the cursor.  The loop *)
(* of a seek runs without waiting for anything: its iterations are taken   *)
(* as long as there is one to take.                                        *)
(***************************************************************************)
SeekAlphabet ==
    {Blank, IfLine(Str_aa, "==", Lit(1)), IfEnd, BranchTo(0), BranchEnd}

SeekScripts == UNION {[1..n -> SeekAlphabet] : n \in 1..MaxLen}

InitSeek == \E script \in SeekScripts : StartScene(script)

NextSeek ==
    \/ Dispatch
    \/ SeekStep
    \/ NoInput

SpecSeek == InitSeek /\ [][NextSeek]_vars /\ WF_vars(SeekStep)

\* the loop of the seek is about to test the line under the cursor
SeekLoopTest == pc = "seek"

\* C30: a seek terminates within its frame, whatever the script: once it has
\* run past the end, with the cursor put back on the last line and the
\* finished flag set, its loop is left.
C30_SeekStopsAtEnd ==
    (SeekLoopTest /\ main.finished_scene) =>
        seek_target(main, main.lines[main.index + 1])

\* The same as a property of the behaviours: a seek that has started comes
\* to an end.  It fails on the behaviours that stay for ever in the state
\* that C30_SeekStopsAtEnd excludes.
SeekTerminates == SeekLoopTest ~> ~SeekLoopTest


(***************************************************************************)
(* The closing .text and the reveal of the page, over SpecPages.           *)
(***************************************************************************)
\* C31: with skip and auto off, a closing .text lets the cursor pass only
\* when every line of the live page is fully revealed, whenever the player
\* clicked.
C31_PagePassedOnlyWhenRevealed ==
    (TextCloseDispatched /\ obs.ret
       /\ ~obs.before.is_skip /\ ~obs.before.is_auto) =>
        dialogue_complete(obs.before.cur_dialogue)


(***************************************************************************)
(* The lines of a record that load_save reads, over SpecSave.              *)
(***************************************************************************)
\* the 1-based positions of the lines of a record that the transcript loop
\* reads as names and dialogue: those between "begin" and the first line
\* after it that starts with "end"
TranscriptLines(save_file) ==
    LET begins == {k \in 1..Len(save_file) : StartsWith(save_file[k], Str_begin)}
        b == CHOOSE k \in begins : \A j \in begins : k <= j
        ends == {k \in (b + 1)..Len(save_file) : StartsWith(save_file[k], Str_end)}
        e == CHOOSE k \in ends : \A j \in ends : k <= j
    IN  IF begins = {} \/ ends = {} THEN {} ELSE (b + 1)..(e - 1)

\* the record with a blank put before each dialogue line of the transcript:
\* the transcript loop strips it, and no field begins with a blank
Shielded(save_file) ==
    [k \in 1..Len(save_file) |->
        IF k \in TranscriptLines(save_file) /\ ~StartsWith(save_file[k], Str_name)
        THEN <<" ">> \o save_file[k] ELSE save_file[k]]

\* C32: load_save reads each line of a record once: what it leaves is what
\* it leaves for the record in which no dialogue line of the transcript can
\* be taken for a field.
C32_TranscriptLinesReadOnce ==
    JustLoaded => main = load_save(obs.saved, Shielded(disk.lines), scenes)


(***************************************************************************)
(* SpecBacklog: a blank line and three pages of dialogue, each with one    *)
(* line or with none.  The player saves into the empty slot and loads the  *)
(* record once.                                                            *)
(***************************************************************************)
BacklogBodies == {<<>>, <<Raw(Str_Hi)>>}

BacklogScript(b1, b2, b3) ==
    <<Blank, TextName(Str_A)>> \o b1 \o <<TextEnd, TextName(Str_B)>> \o b2
    \o <<TextEnd, TextName(Str_A)>> \o b3 \o <<TextEnd>>

BacklogScripts ==
    {BacklogScript(b1, b2, b3) :
        b1 \in BacklogBodies, b2 \in BacklogBodies, b3 \in BacklogBodies}

InitBacklog == \E script \in BacklogScripts : StartScene(script)

NextBacklog ==
    \/ Dispatch
    \/ NoInput
    \/ Click
    \/ ClickSave
    \/ ClickLoad

SpecBacklog == InitBacklog /\ [][NextBacklog]_vars

\* a sequence without its last element; the empty sequence stays empty
Front(s) == SubSeq(s, 1, Len(s) - 1)

\* C33: a load leaves the backlog that was saved, without its last page,
\* and the speaker names that were saved, without the last, page for page;
\* also when the saved backlog is empty or holds several pages without lines.
C33_BacklogWithoutLastPage ==
    JustLoaded =>
        /\ pc # "crashed"
        /\ main.prev_dialogue = Front(obs.saved.prev_dialogue)
        /\ main.prev_name_text = Front(obs.saved.prev_name_text)


(***************************************************************************)
(* The backlog and its indices, over SpecSave.                             *)
(***************************************************************************)
\* C34: while the program runs, max_prev_index is the index of the last page
\* of the backlog, and the backlog has one speaker name for each page.
C34_LatestPageIsLastPage ==
    pc # "crashed" =>
        /\ main.max_prev_index = Len(main.prev_dialogue) - 1
        /\ main.max_prev_index = Len(main.prev_name_text) - 1


(***************************************************************************)
(* C35: a finished transition leaves no transition state behind            *)
(***************************************************************************)
\* the frame dispatched a .scenein or a .sceneout that returned true
TransFinished == TransDispatched /\ pc = "events" /\ obs.ret

\* the transition members as init_members leaves them
TransitionAtRest(m) ==
    /\ ~m.is_fade_in /\ ~m.is_fade_out /\ ~m.is_zoom_in /\ ~m.is_zoom_out
    /\ m.fade_alpha = 0
    /\ m.zoom_scale = 10 /\ m.target_scale = 10 /\ m.zoom_rate = 1
    /\ ~m.has_loaded_scene /\ ~m.has_unloaded_scene

\* C35: whenever a .scenein or .sceneout directive returns true, the fade and
\* zoom flags are false, fade_alpha is 0, zoom_scale and target_scale are 1.0,
\* zoom_rate is 0.1 and has_loaded_scene and has_unloaded_scene are false.
C35_TransitionStateReset == TransFinished => TransitionAtRest(main)

\* a combined fade and zoom with its own scale, target and rate has finished
C35_Witness ==
    /\ TransFinished /\ TransitionAtRest(main)
    /\ obs.ln.type \in {"fadezoomin", "fadezoomout"} /\ obs.ln.nargs = 3
    /\ obs.before.fade_alpha > 0 /\ obs.before.zoom_rate # 1



(***************************************************************************)
(* SpecModes: choices, pages and sound effects played with the Skip and    *)
(* Auto buttons.  The scripts are a choice of Spec, two choices in a row   *)
(* of which the first may leave its selection behind, and pages with       *)
(* .sound lines inside and after the text block.                           *)
(***************************************************************************)
\* (the player clicks Skip and Auto in the frames that do not start inside
\* a countdown of auto mode)
ClickSkip ==
    /\ main.target_hide_alpha = 255
    /\ ~main.has_set_auto
    /\ LET h(m) == click_button(m, 6) IN Events(h)
    /\ obs' = [obs EXCEPT !.clicked = [value |-> 6, before |-> after_seek(main).m]]
    /\ UNCHANGED disk

ClickAutoButton ==
    /\ main.target_hide_alpha = 255
    /\ ~main.has_set_auto
    /\ LET h(m) == click_button(m, 7) IN Events(h)
    /\ obs' = [obs EXCEPT !.clicked = [value |-> 7, before |-> after_seek(main).m]]
    /\ UNCHANGED disk

TwoChoices ==
    <<ChoiceLine, Option(0, Str_A), Option(1, Str_Hi), ChoiceLine,
      BranchTo(0), Blank, BranchEnd,
      ChoiceLine, Option(1, Str_A), ChoiceLine,
      BranchTo(1), Wait(1), BranchEnd>>

SoundBodies ==
    {<<Raw(Str_Hi), Sound(Str_ding)>>, <<Sound(Str_ding), Raw(Str_Hi)>>,
     <<Sound(Str_empty)>>, <<Sound(Str_ding), Sound(Str_empty)>>}

SoundTails == {<<Sound(Str_ding), Blank>>, <<Sound(Str_empty), Wait(1)>>}

SoundScripts ==
    {<<TextName(Str_A)>> \o b \o <<TextEnd>> \o t :
        b \in SoundBodies, t \in SoundTails}

ModeChoices ==
    {ChoiceScript(<<Blank, VarLine(Str_aa, "+=", Lit(1))>>,
                  <<TextName(Str_A), Raw(Str_Hi), TextEnd>>)}

ModeScripts == ModeChoices \cup {TwoChoices} \cup SoundScripts

InitModes == \E script \in ModeScripts : StartScene(script)

NextModes ==
    \/ Dispatch
    \/ SeekStep
    \/ NoInput
    \/ Click
    \/ ClickOption
    \/ ClickSkip
    \/ ClickAutoButton

SpecModes == InitModes /\ [][NextModes]_vars



(***************************************************************************)
(* C36: the selection is made by a click on an option                      *)
(***************************************************************************)
\* the frame dispatched a closing .choice, which let the cursor pass
ChoicePassed ==
    /\ Dispatched /\ obs.ln.op = "choice"
    /\ obs.before.is_process_choice /\ obs.ret

\* a step that takes the selection from -1 to another value
SelectionMade == main.cur_choice = -1 /\ main'.cur_choice # -1

\* the step is the end of a frame in state CHOOSE in which the player
\* clicked on one of the collected options
OptionClicked ==
    /\ pc = "events" /\ main.state = STATE_CHOOSE
    /\ obs'.pick = main'.cur_choice
    /\ \E i \in DOMAIN main.cur_options :
          main' = click_option(after_seek(main).m, i)

\* C36: the selection changes from -1 to an option id only by a player click
\* on one of the collected options while the state is CHOOSE, whatever the
\* mode and the other clicks; the cursor passes a closing .choice only with
\* the option the player picked.
C36_SelectionOnlyByPick ==
    /\ [][SelectionMade => OptionClicked]_vars
    /\ [](ChoicePassed =>
            /\ obs.before.cur_choice = obs.pick
            /\ \E i \in DOMAIN obs.before.cur_options :
                  obs.before.cur_options[i].value = obs.pick)

\* skip mode has run through a closing .choice that the player's pick opened
C36_Witness ==
    /\ ChoicePassed /\ obs.before.is_skip
    /\ obs.count > 2 /\ obs.pick = 1



(***************************************************************************)
(* SpecScreen: a script with a variable, a transition of a few frames, a   *)
(* page with a character and a choice; the player opens the save           *)
(* sub-screen at any frame, and writes the slot or leaves with Back.       *)
(***************************************************************************)
ScreenScenes ==
    {SceneIn("fadezoomin", 3, 10, 14, 3), SceneIn("zoomout", 2, 15, 10, 1)}

ScreenScripts ==
    {<<Load(Str_hero, 0), VarLine(Str_aa, "+=", Lit(1)), SetFade(100), si,
       TextChar(0, 1, 3, Str_A), Raw(Str_Hi), TextEnd,
       ChoiceLine, Option(0, Str_A), ChoiceLine, Blank>> : si \in ScreenScenes}

InitScreen == \E script \in ScreenScripts : StartScene(script)

NextScreen ==
    \/ Dispatch
    \/ NoInput
    \/ Click
    \/ ClickOption
    \/ ClickSave
    \/ ClickSaveBack

SpecScreen == InitScreen /\ [][NextScreen]_vars

\* the last step opened the save sub-screen and left it
ScreenLeft == obs.opened # <<>> /\ pc # "crashed"

\* C37: opening the in-game save sub-screen and leaving it, whether or not a
\* slot was written, leaves the cursor, the state, the variables, the live
\* page and the backlog with their indices, the characters on stage and the
\* transition state (every member of the Main object that the interpreter
\* reads) as they were before the sub-screen was opened.
C37_SaveScreenLeavesInterpreter == ScreenLeft => main = obs.opened

\* the sub-screen was opened while the choice waited with a character on
\* stage, and left after the slot was written
C37_Witness ==
    /\ ScreenLeft /\ disk.exists /\ obs.saved = obs.opened
    /\ main.state = STATE_CHOOSE /\ main.cur_chars # <<>>

\* the sub-screen was opened in the middle of a fade and left with Back
C37_WitnessBack ==
    /\ ScreenLeft /\ ~disk.exists
    /\ main.is_fade_in /\ main.fade_alpha > 0 /\ main.variables[Str_aa] = 1



(***************************************************************************)
(* C38: skip mode and auto mode exclude each other                         *)
(***************************************************************************)
\* the last step was a click on the Skip or on the Auto button
ModeClicked == obs.clicked # <<>> /\ pc # "crashed"

\* C38: is_skip and is_auto are never both true; a click that turns one mode
\* on found the other off, and a click on either button while the other mode
\* is on leaves that other mode as it is.
C38_SkipAndAutoExclusive ==
    /\ ~(main.is_skip /\ main.is_auto)
    /\ ModeClicked =>
          LET b == obs.clicked.before
          IN  /\ (main.is_skip /\ ~b.is_skip) => ~b.is_auto
              /\ (main.is_auto /\ ~b.is_auto) => ~b.is_skip
              /\ (obs.clicked.value = 6 /\ b.is_auto) =>
                    main.is_auto /\ ~main.is_skip
              /\ (obs.clicked.value = 7 /\ b.is_skip) =>
                    main.is_skip /\ ~main.is_auto

\* the player clicked Skip while auto mode was on
C38_Witness ==
    /\ ModeClicked /\ obs.clicked.value = 6
    /\ obs.clicked.before.is_auto /\ main.is_auto



(***************************************************************************)
(* C39: .sound in skip mode                                                *)
(***************************************************************************)
\* the frame dispatched a .sound line while skip mode was on
SoundSkipped ==
    /\ obs.called /\ obs.ln.op = "sound" /\ obs.before.is_skip
    /\ pc \in {"events", "crashed"}

\* C39: while skip mode is on, a .sound(...) line is a no-op that returns
\* true: it plays nothing and leaves the live page and the backlog as they
\* were, also when it is met inside an open text block.
C39_SkippedSoundIsNoOp ==
    SoundSkipped =>
        /\ pc = "events" /\ obs.ret
        /\ main.sound = obs.before.sound
        /\ Len(main.cur_dialogue) = Len(obs.before.cur_dialogue)
        /\ main.prev_dialogue = obs.before.prev_dialogue
        /\ main.prev_name_text = obs.before.prev_name_text

\* The same outside a text block: this holds.
C39_OutsideTextBlock ==
    (SoundSkipped /\ ~obs.before.is_process_text) =>
        /\ pc = "events" /\ obs.ret
        /\ main.sound = obs.before.sound
        /\ Len(main.cur_dialogue) = Len(obs.before.cur_dialogue)
        /\ main.prev_dialogue = obs.before.prev_dialogue
        /\ main.prev_name_text = obs.before.prev_name_text

====
